---- MODULE Spec2Model ----
(***************************************************************************)
(* Lexicon resolution of the interlinear API: the Strong's key normalizer  *)
(* (three copies: app.py, apply_lexicon_to_db.py, export_ot_interlinear),  *)
(* the Lexicon Store, the runtime Token Enricher, the Batch Resolver and   *)
(* the OT export write-back.                                               *)
(*                                                                         *)
(* A Python string is a sequence of one-character strings; None / SQL NULL *)
(* is the one-element sequence None.  A dict is a function whose DOMAIN is *)
(* its key set.                                                            *)
(***************************************************************************)
EXTENDS Naturals, Sequences, FiniteSets, TLC

VARIABLES
    raw,          \* the string argument of the call or request under study
    strongs_csv,  \* rows of data/strongs_lexicon.csv, in file order
    greek_csv,    \* rows of data/greek_lexicon.csv, in file order
    tokens_csv,   \* the normalized tokens CSV handed to the loaders
    missing,      \* the lexicon files that do not exist
    tokens,       \* the tokens table; the row id is the position
    by_strong,    \* LEX.by_strong of app.py
    by_lemma,     \* LEX.by_lemma of app.py
    loaded,       \* LEX.load() has run
    last          \* the last operation run and what it returned

vars == <<raw, strongs_csv, greek_csv, tokens_csv, missing, tokens, by_strong, by_lemma, loaded, last>>

----------------------------------------------------------------------------
(* Bounds *)

MaxRawLen == 4
MaxRows == 2
MaxTokens == 2

MaxSeedRows == 2
MaxTableRows == 4
MaxBatch == 2
MaxBookLen == 4
MaxStrongLen == 3

----------------------------------------------------------------------------
(* Strings *)

None == <<"None">>
Empty == <<>>

\* the empty dict
EmptyDict == [k \in {} |-> Empty]

\* Python's `x or ""` on a str-or-None (SQL: COALESCE(x, '')).
OrEmpty(s) == IF s = None THEN Empty ELSE s

\* Python truthiness of a str-or-None.
Truthy(s) == s # None /\ s # Empty

Whitespace == {" ", "\t", "\n", "\r"}
Separators == Whitespace \cup {",", "/", ";"}
DigitChars == {"0", "1", "2", "3", "4", "5", "6", "7", "8", "9"}

RECURSIVE LStrip(_)
LStrip(s) ==
    IF s # <<>> /\ Head(s) \in Whitespace THEN LStrip(Tail(s)) ELSE s

RECURSIVE RStrip(_)
RStrip(s) ==
    IF s # <<>> /\ s[Len(s)] \in Whitespace
    THEN RStrip(SubSeq(s, 1, Len(s) - 1)) ELSE s

\* str.strip()
Strip(s) == RStrip(LStrip(s))

RECURSIVE SqlLTrim(_)
SqlLTrim(s) == IF s # <<>> /\ Head(s) = " " THEN SqlLTrim(Tail(s)) ELSE s

RECURSIVE SqlRTrim(_)
SqlRTrim(s) ==
    IF s # <<>> /\ s[Len(s)] = " "
    THEN SqlRTrim(SubSeq(s, 1, Len(s) - 1)) ELSE s

\* SQLite TRIM(COALESCE(x, '')): removes spaces only.
SqlTrim(s) == SqlRTrim(SqlLTrim(OrEmpty(s)))

\* re.sub(r"\D", "", s)
OnlyDigits(s) == SelectSeq(s, LAMBDA c : c \in DigitChars)

\* p[0].upper() for the letters the tagged pattern admits
Upper(c) == CASE c = "h" -> "H" [] c = "g" -> "G" [] OTHER -> c

\* re.split(r"[,\s/;]+", s): the pieces between runs of separators; a
\* separator run at either end leaves an empty piece there.
RECURSIVE SplitFrom(_, _, _)
SplitFrom(s, cur, inSep) ==
    IF s = <<>> THEN <<cur>>
    ELSE IF Head(s) \in Separators
         THEN IF inSep THEN SplitFrom(Tail(s), cur, TRUE)
              ELSE <<cur>> \o SplitFrom(Tail(s), <<>>, TRUE)
         ELSE SplitFrom(Tail(s), Append(cur, Head(s)), FALSE)

ReSplit(s) == SplitFrom(s, <<>>, FALSE)

\* re.match(r"^[HhGg]\d+$", p)
MatchTagged(p) ==
    /\ Len(p) >= 2
    /\ p[1] \in {"H", "h", "G", "g"}
    /\ \A i \in 2..Len(p) : p[i] \in DigitChars

\* "dedupe preserving order"
RECURSIVE DedupeFrom(_, _)
DedupeFrom(ks, out) ==
    IF ks = <<>> THEN out
    ELSE IF \E i \in 1..Len(out) : out[i] = Head(ks)
         THEN DedupeFrom(Tail(ks), out)
         ELSE DedupeFrom(Tail(ks), Append(out, Head(ks)))

\* a normalizer that forgets to deduplicate
MutDedupe(ks) == ks

Dedupe(ks) == DedupeFrom(ks, <<>>)

SeqToSet(s) == {s[i] : i \in 1..Len(s)}

----------------------------------------------------------------------------
(* Key Normalizer: app.py _norm_strong_keys *)

MutTaggedKeys(p) ==
    LET num == OnlyDigits(SubSeq(p, 2, Len(p)))
    IN  IF num # <<>> THEN << num, <<Upper(p[1])>> \o num >> ELSE <<>>

\* a normalizer that keys a Hebrew code by its digits alone
MutTaggedKeysBare(p) ==
    LET prefix == Upper(p[1])
        num == OnlyDigits(SubSeq(p, 2, Len(p)))
    IN  IF num = <<>> THEN <<>>
        ELSE IF prefix = "H" THEN <<num>> ELSE << <<prefix>> \o num, num >>

TaggedKeys(p) ==
    LET prefix == Upper(p[1])
        num == OnlyDigits(SubSeq(p, 2, Len(p)))
    IN  IF num # <<>> THEN << <<prefix>> \o num, num >> ELSE <<>>

MutHedgedKeys(p) ==
    LET num == OnlyDigits(p)
    IN  IF num # <<>> THEN << <<"H">> \o num, num, <<"G">> \o num >> ELSE <<>>

HedgedKeys(p) ==
    LET num == OnlyDigits(p)
    IN  IF num # <<>> THEN << <<"H">> \o num, <<"G">> \o num, num >> ELSE <<>>

\* the OT export tool's order for an untagged piece
HedgedKeysOT(p) ==
    LET num == OnlyDigits(p)
    IN  IF num # <<>> THEN << <<"H">> \o num, num, <<"G">> \o num >> ELSE <<>>

RECURSIVE AppPieceKeys(_)
AppPieceKeys(parts) ==
    IF parts = <<>> THEN <<>>
    ELSE LET p == Head(parts)
         IN  (IF p = <<>> THEN <<>>
              ELSE IF MatchTagged(p) THEN TaggedKeys(p)
              ELSE HedgedKeys(p)) \o AppPieceKeys(Tail(parts))

_norm_strong_keys(r) ==
    IF ~Truthy(r) THEN <<>>
    ELSE Dedupe(AppPieceKeys(ReSplit(Strip(r))))

(* Key Normalizer: apply_lexicon_to_db.py norm_strong_keys *)

RECURSIVE BatchPieceKeys(_)
BatchPieceKeys(parts) ==
    IF parts = <<>> THEN <<>>
    ELSE LET p == Strip(Head(parts))
         IN  (IF p = <<>> THEN <<>>
              ELSE IF MatchTagged(p) THEN TaggedKeys(p)
              ELSE HedgedKeys(p)) \o BatchPieceKeys(Tail(parts))

norm_strong_keys(r) ==
    IF ~Truthy(r) THEN <<>>
    ELSE Dedupe(BatchPieceKeys(ReSplit(Strip(r))))

(* Key Normalizer: tools/export_ot_interlinear.py norm_strong_keys *)

RECURSIVE OTPieceKeys(_)
OTPieceKeys(parts) ==
    IF parts = <<>> THEN <<>>
    ELSE LET p == Strip(Head(parts))
         IN  (IF p = <<>> THEN <<>>
              ELSE IF MatchTagged(p) THEN TaggedKeys(p)
              ELSE HedgedKeysOT(p)) \o OTPieceKeys(Tail(parts))

norm_strong_keys_ot(r) ==
    IF ~Truthy(r) THEN <<>>
    ELSE Dedupe(OTPieceKeys(ReSplit(Strip(r))))

----------------------------------------------------------------------------
(* Lexicon Store *)

EntryFields == {"lemma", "translit", "gloss"}

\* `resolved = {}`: every resolved.get(field, "") of it is ""
EmptyEntry == [lemma |-> Empty, translit |-> Empty, gloss |-> Empty]

\* a dict that keeps the entry a key already has
MutDictPut(d, k, e) ==
    [x \in (DOMAIN d) \cup {k} |-> IF x \in DOMAIN d THEN d[x] ELSE e]

\* d[k] = e
DictPut(d, k, e) ==
    [x \in (DOMAIN d) \cup {k} |-> IF x = k THEN e ELSE d[x]]

\* for k in keys: d[k] = entry
RECURSIVE DictPutAll(_, _, _)
DictPutAll(d, keys, e) ==
    IF keys = <<>> THEN d
    ELSE DictPutAll(DictPut(d, Head(keys), e), Tail(keys), e)

\* _read_csv: every cell is (v or "").strip()
_read_csv(rows) ==
    [i \in 1..Len(rows) |->
        [f \in DOMAIN rows[i] |-> Strip(OrEmpty(rows[i][f]))]]

\* Lexicon.load, first loop: by_strong from the rows of strongs_lexicon.csv
RECURSIVE LoadByStrong(_, _)
LoadByStrong(rows, d) ==
    IF rows = <<>> THEN d
    ELSE LET r == Head(rows)
             strong == Strip(OrEmpty(r.strong))
             entry == [lemma |-> Strip(OrEmpty(r.lemma)),
                       translit |-> Strip(OrEmpty(r.translit)),
                       gloss |-> Strip(OrEmpty(r.gloss))]
         IN  LoadByStrong(Tail(rows),
                 IF strong # <<>>
                 THEN DictPutAll(d, _norm_strong_keys(strong), entry)
                 ELSE d)

\* Lexicon.load, second loop: by_lemma from the rows of greek_lexicon.csv
RECURSIVE LoadByLemma(_, _)
LoadByLemma(rows, d) ==
    IF rows = <<>> THEN d
    ELSE LET r == Head(rows)
             lemma == Strip(OrEmpty(r.lemma))
             entry == [lemma |-> lemma,
                       translit |-> Strip(OrEmpty(r.translit)),
                       gloss |-> Strip(OrEmpty(r.gloss))]
         IN  LoadByLemma(Tail(rows),
                 IF lemma # <<>> THEN DictPut(d, lemma, entry) ELSE d)

\* apply_lexicon_to_db.load_strongs_map
RECURSIVE LoadStrongsMapFrom(_, _)
LoadStrongsMapFrom(rows, out) ==
    IF rows = <<>> THEN out
    ELSE LET row == Head(rows)
             strong == Strip(OrEmpty(row.strong))
             entry == [lemma |-> Strip(OrEmpty(row.lemma)),
                       translit |-> Strip(OrEmpty(row.translit)),
                       gloss |-> Strip(OrEmpty(row.gloss))]
         IN  LoadStrongsMapFrom(Tail(rows),
                 IF strong = <<>> THEN out
                 ELSE DictPutAll(out, norm_strong_keys(strong), entry))

load_strongs_map(rows) == LoadStrongsMapFrom(rows, EmptyDict)

\* apply_lexicon_to_db.load_greek_map
RECURSIVE LoadGreekMapFrom(_, _)
LoadGreekMapFrom(rows, out) ==
    IF rows = <<>> THEN out
    ELSE LET row == Head(rows)
             lemma == Strip(OrEmpty(row.lemma))
         IN  LoadGreekMapFrom(Tail(rows),
                 IF lemma = <<>> THEN out
                 ELSE DictPut(out, lemma,
                          [lemma |-> lemma,
                           translit |-> Strip(OrEmpty(row.translit)),
                           gloss |-> Strip(OrEmpty(row.gloss))]))

load_greek_map(rows) == LoadGreekMapFrom(rows, EmptyDict)

\* export_ot_interlinear.load_strongs_map
RECURSIVE LoadStrongsMapOTFrom(_, _)
LoadStrongsMapOTFrom(rows, out) ==
    IF rows = <<>> THEN out
    ELSE LET row == Head(rows)
             s == Strip(OrEmpty(row.strong))
             entry == [lemma |-> Strip(OrEmpty(row.lemma)),
                       translit |-> Strip(OrEmpty(row.translit)),
                       gloss |-> Strip(OrEmpty(row.gloss))]
         IN  LoadStrongsMapOTFrom(Tail(rows),
                 IF s = <<>> THEN out
                 ELSE DictPutAll(out, norm_strong_keys_ot(s), entry))

load_strongs_map_ot(rows) == LoadStrongsMapOTFrom(rows, EmptyDict)

----------------------------------------------------------------------------
(* Token Enricher: app.py enrich_token *)

\* an enricher that never short-circuits
MutAlreadyComplete(lemma, transl, gloss) == FALSE

\* "Already complete?"
AlreadyComplete(lemma, transl, gloss) ==
    Truthy(lemma) /\ Truthy(transl) /\ Truthy(gloss)

\* for k in keys: hit = d.get(k); if hit: resolved = hit; break
\* `tried` are the keys looked up, in order.
RECURSIVE StrongLoop(_, _, _)
StrongLoop(keys, d, tried) ==
    IF keys = <<>> THEN [found |-> FALSE, entry |-> EmptyEntry, tried |-> tried]
    ELSE LET k == Head(keys)
         IN  IF k \in DOMAIN d
             THEN [found |-> TRUE, entry |-> d[k], tried |-> Append(tried, k)]
             ELSE StrongLoop(Tail(keys), d, Append(tried, k))

\* a resolver that also asks the lemma map when the Strong's entry has gaps
MutThenLemma(s, lemma, bl) ==
    LET gaps == \E f \in EntryFields : s.entry[f] = <<>>
        tryLemma == gaps /\ Truthy(lemma)
        lemmaHit == tryLemma /\ lemma \in DOMAIN bl
    IN  [via |-> IF lemmaHit THEN "lemma" ELSE IF s.found THEN "strong" ELSE "none",
         entry |-> IF lemmaHit THEN bl[lemma] ELSE s.entry,
         strong_lookups |-> s.tried,
         lemma_lookups |-> IF tryLemma THEN <<lemma>> ELSE <<>>]

\* `if not resolved and lemma: resolved = by_lemma.get(lemma, {})`, after the
\* loop over the Strong's keys returned s
ThenLemma(s, lemma, bl) ==
    LET tryLemma == ~s.found /\ Truthy(lemma)
        lemmaHit == tryLemma /\ lemma \in DOMAIN bl
    IN  [via |-> IF s.found THEN "strong" ELSE IF lemmaHit THEN "lemma" ELSE "none",
         entry |-> IF lemmaHit THEN bl[lemma] ELSE s.entry,
         strong_lookups |-> s.tried,
         lemma_lookups |-> IF tryLemma THEN <<lemma>> ELSE <<>>]

\* "Try Strong's first, then lemma"
Resolve(strong, lemma, bs, bl) ==
    ThenLemma(StrongLoop(_norm_strong_keys(strong), bs, <<>>), lemma, bl)

NoLookups ==
    [via |-> "none", entry |-> EmptyEntry,
     strong_lookups |-> <<>>, lemma_lookups |-> <<>>]

\* a whole-record fallback: a candidate field replaces the token's own
MutFieldOr(own, cand) == IF cand # <<>> THEN cand ELSE own

\* `own or resolved.get(field, "")`
FieldOr(own, cand) == IF Truthy(own) THEN own ELSE cand

\* an enricher whose output does not carry the token's strong code
MutEnriched(surface, lemma, transl, gloss, morph, strong, idx, resolved) ==
    [surface |-> surface, lemma |-> lemma, translit |-> transl,
     gloss |-> gloss, morph |-> morph, strong |-> <<>>, index |-> idx,
     resolved_lemma |-> FieldOr(lemma, resolved.lemma),
     resolved_translit |-> FieldOr(transl, resolved.translit),
     resolved_gloss |-> FieldOr(gloss, resolved.gloss),
     translation |-> FieldOr(gloss, resolved.gloss)]

\* The dict enrich_token returns, given the candidate entry `resolved`.
Enriched(surface, lemma, transl, gloss, morph, strong, idx, resolved) ==
    [surface |-> surface, lemma |-> lemma, translit |-> transl,
     gloss |-> gloss, morph |-> morph, strong |-> strong, index |-> idx,
     resolved_lemma |-> FieldOr(lemma, resolved.lemma),
     resolved_translit |-> FieldOr(transl, resolved.translit),
     resolved_gloss |-> FieldOr(gloss, resolved.gloss),
     translation |-> FieldOr(gloss, resolved.gloss)]

\* The lookups enrich_token makes and the candidate it settles on: none when
\* the row is already complete.
Lookups(lemma, transl, gloss, strong, bs, bl) ==
    IF AlreadyComplete(lemma, transl, gloss) THEN NoLookups
    ELSE Resolve(strong, lemma, bs, bl)

EnrichResolution(row, bs, bl) ==
    Lookups(OrEmpty(row.lemma), OrEmpty(row.translit), OrEmpty(row.gloss),
            OrEmpty(row.strong), bs, bl)

enrich_token(row, bs, bl) ==
    Enriched(OrEmpty(row.surface), OrEmpty(row.lemma), OrEmpty(row.translit),
             OrEmpty(row.gloss), OrEmpty(row.morph), OrEmpty(row.strong),
             row.token_index, EnrichResolution(row, bs, bl).entry)

----------------------------------------------------------------------------
(* Source files of the loaders *)

\* seed.py `required`, merge_tokens.py FIELDS
FIELDS ==
    {"book_code", "chapter", "verse", "token_index", "surface",
     "lemma", "translit", "gloss", "morph", "strong"}

\* A CSV file as csv.DictReader reads it: the header and the rows.
SourceFile(fieldnames, rows) == [fieldnames |-> fieldnames, rows |-> rows]

\* a tokens CSV with the full header and no row
NoSource == SourceFile(FIELDS, <<>>)

\* row.get(key)
Get(row, key) == IF key \in DOMAIN row THEN row[key] ELSE None

(* Lexicon files *)

StrongsFile == "strongs_lexicon.csv"
GreekFile == "greek_lexicon.csv"
LexiconFiles == {StrongsFile, GreekFile}

\* `if os.path.isfile(path)` around the reading of a lexicon file: a file
\* that does not exist contributes no row.
IfIsFile(name, rows, absent) == IF name \in absent THEN <<>> ELSE rows

----------------------------------------------------------------------------
(* Inputs of the normalizer runs *)

RawChars == {"H", "h", "G", "g", "0", "1", " ", "/", ",", "x"}

RECURSIVE StringsUpTo(_, _)
StringsUpTo(chars, n) ==
    IF n = 0 THEN {<<>>}
    ELSE LET shorter == StringsUpTo(chars, n - 1)
         IN  shorter \cup {Append(s, c) : s \in shorter, c \in chars}

RawInputs == StringsUpTo(RawChars, MaxRawLen) \cup {None}

NoOp == [op |-> "none"]

\* The parts of the state a run of the normalizers leaves at their start.
IdleLexicon ==
    /\ strongs_csv = <<>>
    /\ greek_csv = <<>>
    /\ tokens_csv = NoSource
    /\ missing = {}
    /\ tokens = <<>>
    /\ by_strong = EmptyDict
    /\ by_lemma = EmptyDict
    /\ loaded = FALSE

InitNorm ==
    /\ raw \in RawInputs
    /\ IdleLexicon
    /\ last = NoOp

CallNormApp ==
    /\ last.op = "none"
    /\ last' = [op |-> "_norm_strong_keys", keys |-> _norm_strong_keys(raw)]
    /\ UNCHANGED <<raw, strongs_csv, greek_csv, tokens_csv, missing, tokens, by_strong, by_lemma, loaded>>

CallNormBatch ==
    /\ last.op = "none"
    /\ last' = [op |-> "norm_strong_keys", keys |-> norm_strong_keys(raw)]
    /\ UNCHANGED <<raw, strongs_csv, greek_csv, tokens_csv, missing, tokens, by_strong, by_lemma, loaded>>

CallNormOT ==
    /\ last.op = "none"
    /\ last' = [op |-> "norm_strong_keys_ot", keys |-> norm_strong_keys_ot(raw)]
    /\ UNCHANGED <<raw, strongs_csv, greek_csv, tokens_csv, missing, tokens, by_strong, by_lemma, loaded>>

NextNorm == CallNormApp \/ CallNormBatch \/ CallNormOT

SpecNorm == InitNorm /\ [][NextNorm]_vars

----------------------------------------------------------------------------
(* Batch Resolver: apply_lexicon_to_db.py main *)

\* The WHERE clause of the SELECT.
Selected(r, overwrite) ==
    IF overwrite
    THEN SqlTrim(r.strong) # <<>>
    ELSE \/ SqlTrim(r.lemma) = <<>>
         \/ SqlTrim(r.translit) = <<>>
         \/ SqlTrim(r.gloss) = <<>>

\* "Prefer Strong's", then "Fallback: lemma (Greek map)"
BatchHit(t_strong, t_lemma, strongs_map, greek_map) ==
    ThenLemma(StrongLoop(norm_strong_keys(t_strong), strongs_map, <<>>),
              t_lemma, greek_map)

\* "Decide new values"
NewValue(overwrite, cur, cand) ==
    IF overwrite THEN FieldOr(cand, cur) ELSE FieldOr(cur, cand)

\* a resolver that rewrites every row it has a candidate for
MutAnythingChanges(new, cur) == TRUE

\* "Write if anything changes"
AnythingChanges(new, cur) == new # cur

\* `if not hit: continue`, the new values and the decision to UPDATE
Decide(overwrite, t_lemma, t_transl, t_gloss, hit) ==
    [via |-> hit.via,
     lemma |-> NewValue(overwrite, t_lemma, hit.entry.lemma),
     translit |-> NewValue(overwrite, t_transl, hit.entry.translit),
     gloss |-> NewValue(overwrite, t_gloss, hit.entry.gloss),
     write |-> /\ hit.via # "none"
               /\ AnythingChanges(
                      << NewValue(overwrite, t_lemma, hit.entry.lemma),
                         NewValue(overwrite, t_transl, hit.entry.translit),
                         NewValue(overwrite, t_gloss, hit.entry.gloss) >>,
                      <<t_lemma, t_transl, t_gloss>>)]

Stripped(overwrite, t_strong, t_lemma, t_transl, t_gloss, strongs_map, greek_map) ==
    Decide(overwrite, t_lemma, t_transl, t_gloss,
           BatchHit(t_strong, t_lemma, strongs_map, greek_map))

\* The body of `for r in rows` for one selected row.
BatchRow(r, overwrite, strongs_map, greek_map) ==
    Stripped(overwrite, Strip(OrEmpty(r.strong)), Strip(OrEmpty(r.lemma)),
             Strip(OrEmpty(r.translit)), Strip(OrEmpty(r.gloss)),
             strongs_map, greek_map)

\* an UPDATE that stores the lemma only
MutUpdateRow(r, lemma, translit, gloss) == [r EXCEPT !.lemma = lemma]

\* UPDATE tokens SET lemma = ?, translit = ?, gloss = ? WHERE id = ?
UpdateRow(r, lemma, translit, gloss) ==
    [r EXCEPT !.lemma = lemma, !.translit = translit, !.gloss = gloss]

Outcome(r, b) ==
    [via |-> b.via, write |-> b.write,
     row |-> IF b.write THEN UpdateRow(r, b.lemma, b.translit, b.gloss) ELSE r]

\* What the run does with row r of the table.
BatchOutcome(r, overwrite, strongs_map, greek_map) ==
    IF ~Selected(r, overwrite)
    THEN [via |-> "none", write |-> FALSE, row |-> r]
    ELSE Outcome(r, BatchRow(r, overwrite, strongs_map, greek_map))

\* The table after conn.commit() and the counters printed.
Committed(o) ==
    [table |-> [i \in DOMAIN o |-> o[i].row],
     printed |-> TRUE,
     updated |-> Cardinality({i \in DOMAIN o : o[i].write}),
     by_strong |-> Cardinality({i \in DOMAIN o : o[i].via = "strong"}),
     by_lemma |-> Cardinality({i \in DOMAIN o : o[i].via = "lemma"}),
     exit |-> "ok"]

WithMaps(table, overwrite, strongs_map, greek_map) ==
    IF DOMAIN strongs_map = {} /\ DOMAIN greek_map = {}
    THEN [table |-> table, printed |-> FALSE,
          updated |-> 0, by_strong |-> 0, by_lemma |-> 0, exit |-> "ok"]
    ELSE Committed([i \in 1..Len(table) |->
                       BatchOutcome(table[i], overwrite, strongs_map, greek_map)])

\* main(): what the run leaves in the table and what it prints.
apply_lexicon_to_db(table, overwrite, strongs_rows, greek_rows) ==
    WithMaps(table, overwrite,
             load_strongs_map(strongs_rows), load_greek_map(greek_rows))

----------------------------------------------------------------------------
(* OT export: tools/export_ot_interlinear.py main *)

SameVerse(r, q) ==
    r.book_code = q.book_code /\ r.chapter = q.chapter /\ r.verse = q.verse

HasHKey(ks) == \E n \in 1..Len(ks) : Head(ks[n]) = "H"

\* "any token whose normalized candidates include an H#### key"
IsOT(table, r) ==
    \E j \in 1..Len(table) :
        /\ SameVerse(table[j], r)
        /\ HasHKey(norm_strong_keys_ot(OrEmpty(table[j].strong)))

\* The body of `for r in rows` of an OT verse: the exported token.
ExportRow(r, strongs) ==
    Enriched(OrEmpty(r.surface), OrEmpty(r.lemma), OrEmpty(r.translit),
             OrEmpty(r.gloss), OrEmpty(r.morph), OrEmpty(r.strong),
             r.token_index,
             StrongLoop(norm_strong_keys_ot(OrEmpty(r.strong)), strongs, <<>>).entry)

\* r_lemma != lemma or r_transl != transl or r_gloss != gloss
ExportChanges(t) ==
    \/ t.resolved_lemma # t.lemma
    \/ t.resolved_translit # t.translit
    \/ t.resolved_gloss # t.gloss

\* The table after the run, the rows updated and the tokens exported.
Exported(table, write_db, ot, t) ==
    [table |-> [i \in 1..Len(table) |->
                   IF i \in ot /\ write_db /\ ExportChanges(t[i])
                   THEN UpdateRow(table[i], t[i].resolved_lemma,
                                  t[i].resolved_translit, t[i].resolved_gloss)
                   ELSE table[i]],
     updated_rows |-> Cardinality({i \in ot : write_db /\ ExportChanges(t[i])}),
     out_tokens |-> [i \in ot |-> t[i]],
     exit |-> "ok"]

\* main()
export_ot_interlinear(table, write_db, strongs_rows) ==
    Exported(table, write_db,
             {i \in 1..Len(table) : IsOT(table, table[i])},
             [i \in 1..Len(table) |->
                 ExportRow(table[i], load_strongs_map_ot(strongs_rows))])

\* main() from its first statement: load_strongs_map raises SystemExit when
\* the Strong's file does not exist, before the table is opened.
ExportRun(table, write_db, strongs_rows, absent) ==
    IF StrongsFile \in absent
    THEN [table |-> table, updated_rows |-> 0, out_tokens |-> <<>>,
          exit |-> "SystemExit"]
    ELSE export_ot_interlinear(table, write_db, strongs_rows)

----------------------------------------------------------------------------
(* Operations *)

\* LEX.load() at the start of the serving process
LexiconLoad ==
    /\ ~loaded
    /\ by_strong' = LoadByStrong(_read_csv(IfIsFile(StrongsFile, strongs_csv, missing)),
                                 EmptyDict)
    /\ by_lemma' = LoadByLemma(_read_csv(IfIsFile(GreekFile, greek_csv, missing)),
                               EmptyDict)
    /\ loaded' = TRUE
    /\ last' = [op |-> "Lexicon.load"]
    /\ UNCHANGED <<raw, strongs_csv, greek_csv, tokens_csv, missing, tokens>>

VerseRows(table, v) ==
    {i \in 1..Len(table) : SameVerse(table[i], table[v])}

\* GET /interlinear/{book}/{chapter}/{verse} for the verse that starts at row
\* v: each of its rows through enrich_token.
get_interlinear_verse(v) ==
    /\ loaded
    /\ v \in 1..Len(tokens)
    /\ \A j \in VerseRows(tokens, v) : tokens[v].token_index <= tokens[j].token_index
    /\ last' = [op |-> "get_interlinear_verse",
                tokens |-> [i \in VerseRows(tokens, v) |->
                               enrich_token(tokens[i], by_strong, by_lemma)],
                lookups |-> [i \in VerseRows(tokens, v) |->
                                EnrichResolution(tokens[i], by_strong, by_lemma)]]
    /\ UNCHANGED <<raw, strongs_csv, greek_csv, tokens_csv, missing, tokens, by_strong, by_lemma, loaded>>

RanBatch(overwrite, before, run, strongs_map, greek_map) ==
    [op |-> "apply_lexicon_to_db", overwrite |-> overwrite,
     before |-> before, printed |-> run.printed, updated |-> run.updated,
     by_strong |-> run.by_strong, by_lemma |-> run.by_lemma,
     strongs_map |-> strongs_map, greek_map |-> greek_map, exit |-> run.exit]

\* The run's effect: the table it leaves, the counters it prints.
Applying(overwrite, run) ==
    /\ tokens' = run.table
    /\ last' = RanBatch(overwrite, tokens, run,
                        load_strongs_map(IfIsFile(StrongsFile, strongs_csv, missing)),
                        load_greek_map(IfIsFile(GreekFile, greek_csv, missing)))
    /\ UNCHANGED <<raw, strongs_csv, greek_csv, tokens_csv, missing, by_strong, by_lemma, loaded>>

\* python apply_lexicon_to_db.py [--overwrite]
ApplyLexicon(overwrite) ==
    Applying(overwrite,
             apply_lexicon_to_db(tokens, overwrite,
                                 IfIsFile(StrongsFile, strongs_csv, missing),
                                 IfIsFile(GreekFile, greek_csv, missing)))

RanExport(write_db, before, run) ==
    [op |-> "export_ot_interlinear", write_db |-> write_db,
     before |-> before, updated_rows |-> run.updated_rows,
     out_tokens |-> run.out_tokens, exit |-> run.exit]

\* The run's effect: the table it leaves, the tokens it exports.
Exporting(write_db, run) ==
    /\ tokens' = run.table
    /\ last' = RanExport(write_db, tokens, run)
    /\ UNCHANGED <<raw, strongs_csv, greek_csv, tokens_csv, missing, by_strong, by_lemma, loaded>>

\* python tools/export_ot_interlinear.py [--write-db]
ExportOT(write_db) ==
    Exporting(write_db, ExportRun(tokens, write_db, strongs_csv, missing))

Next ==
    \/ LexiconLoad
    \/ \E v \in 1..Len(tokens) : get_interlinear_verse(v)
    \/ \E overwrite \in BOOLEAN : ApplyLexicon(overwrite)
    \/ \E write_db \in BOOLEAN : ExportOT(write_db)

----------------------------------------------------------------------------
(* Inputs: lexicon files and token tables *)

RECURSIVE SeqsUpTo(_, _)
SeqsUpTo(S, n) ==
    IF n = 0 THEN {<<>>}
    ELSE LET shorter == SeqsUpTo(S, n - 1)
         IN  shorter \cup {Append(s, x) : s \in shorter, x \in S}

StrongsRow(strong, lemma, translit, gloss) ==
    [strong |-> strong, lemma |-> lemma, translit |-> translit, gloss |-> gloss]

GreekRow(lemma, translit, gloss) ==
    [lemma |-> lemma, translit |-> translit, gloss |-> gloss]

\* A row of the tokens table as a loader inserts it: id and token_index
\* follow the position in the verse.
TokenRow(i, strong, lemma, translit, gloss) ==
    [id |-> i, book_code |-> <<"G", "E", "N">>, chapter |-> 1, verse |-> 1,
     token_index |-> i, surface |-> <<"w">>,
     lemma |-> lemma, translit |-> translit, gloss |-> gloss,
     morph |-> <<>>, strong |-> strong]

\* cells[i] = <<strong, lemma, translit, gloss>> of row i
TableOf(cells) ==
    [i \in 1..Len(cells) |->
        TokenRow(i, cells[i][1], cells[i][2], cells[i][3], cells[i][4])]

Quiet ==
    /\ raw = <<>>
    /\ tokens_csv = NoSource
    /\ missing = {}
    /\ by_strong = EmptyDict
    /\ by_lemma = EmptyDict
    /\ loaded = FALSE
    /\ last = NoOp

RowH1 == StrongsRow(<<"H", "1">>, <<"p">>, <<"q">>, <<"r">>)
RowG1 == StrongsRow(<<"g", "1">>, <<>>, <<>>, <<"s", " ">>)
RowBare1 == StrongsRow(<<"1">>, <<"b">>, <<>>, <<>>)
RowBlank == StrongsRow(<<" ">>, <<"x">>, None, <<"z">>)
RowH2G1 == StrongsRow(<<"H", "2", "/", "G", "1">>, <<"c">>, <<"d">>, <<>>)
RowA == GreekRow(<<"a">>, <<"u">>, <<"v">>)
RowAPadded == GreekRow(<<"a", " ">>, <<>>, <<"w">>)
RowNoLemma == GreekRow(<<>>, <<"x">>, <<"y">>)

(* Spec: tables of up to MaxTokens rows against a handful of lexicon files *)

TableStrongs == { <<>>, <<"H", "1">>, <<"G", "1">> }
TableFields ==
    { << <<"a">>, <<"t">>, <<"g">> >>,
      << <<"a">>, <<"t">>, <<>> >>,
      << <<"a", " ">>, <<"t">>, <<>> >>,
      << <<>>, <<>>, None >> }
TableCells == { <<s, f[1], f[2], f[3]>> : s \in TableStrongs, f \in TableFields }

TableStrongsFiles == { <<>>, <<RowH1>>, <<RowH1, RowG1>> }
TableGreekFiles == { <<>>, <<RowA>> }

Init ==
    /\ strongs_csv \in TableStrongsFiles
    /\ greek_csv \in TableGreekFiles
    /\ tokens \in {TableOf(c) : c \in SeqsUpTo(TableCells, MaxTokens)}
    /\ Quiet

Spec == Init /\ [][Next]_vars

(* SpecStore: lexicon files of up to MaxRows rows, one fixed token *)

StoreStrongsRows == { RowH1, RowG1, RowBare1, RowBlank, RowH2G1 }
StoreGreekRows == { RowA, RowAPadded, RowNoLemma }

InitStore ==
    /\ strongs_csv \in SeqsUpTo(StoreStrongsRows, MaxRows)
    /\ greek_csv \in SeqsUpTo(StoreGreekRows, MaxRows)
    /\ tokens = TableOf(<< << <<"1">>, <<"a">>, <<>>, <<>> >> >>)
    /\ Quiet

SpecStore == InitStore /\ [][Next]_vars

(* SpecEnrich: one token of any shape against a handful of lexicon files *)

EnrichStrongsFiles ==
    { <<>>, <<RowH1>>, <<RowG1>>, <<RowBare1>>, <<RowH1, RowG1>>,
      <<RowG1, RowH1>>, <<RowH2G1>> }
EnrichGreekFiles == { <<>>, <<RowA>> }

EnrichStrongs ==
    { <<>>, None, <<"H", "1">>, <<"h", "1">>, <<"G", "1">>, <<"1">>, <<"2">>,
      <<"G", "2", "/", "H", "1">>, <<"x">> }
EnrichLemmas == { <<>>, None, <<"a">>, <<"a", " ">> }
EnrichTranslits == { <<>>, <<"t">> }
EnrichGlosses == { <<>>, <<"g">> }

EnrichCells ==
    { <<s, l, t, g>> : s \in EnrichStrongs, l \in EnrichLemmas,
                       t \in EnrichTranslits, g \in EnrichGlosses }

InitEnrich ==
    /\ strongs_csv \in EnrichStrongsFiles
    /\ greek_csv \in EnrichGreekFiles
    /\ tokens \in {TableOf(<<c>>) : c \in EnrichCells}
    /\ Quiet

SpecEnrich == InitEnrich /\ [][Next]_vars

----------------------------------------------------------------------------
(* Properties of the Key Normalizer *)

NormOps == {"_norm_strong_keys", "norm_strong_keys", "norm_strong_keys_ot"}
DefaultNormOps == {"_norm_strong_keys", "norm_strong_keys"}

TagLetters == {"H", "h", "G", "g"}

UpperLetter(c) == IF c \in {"H", "h"} THEN "H" ELSE "G"

\* r is <letter><digits>: one letter of H, h, G, g and one or more digits
IsTaggedInput(r) ==
    /\ r # None
    /\ Len(r) >= 2
    /\ r[1] \in TagLetters
    /\ \A i \in 2..Len(r) : r[i] \in DigitChars

\* r is a non-empty run of digits
IsDigitsInput(r) ==
    /\ r # None
    /\ Len(r) >= 1
    /\ \A i \in 1..Len(r) : r[i] \in DigitChars

\* r is one piece: non-empty, no separator in it
IsOnePiece(r) ==
    /\ r # None
    /\ Len(r) >= 1
    /\ \A i \in 1..Len(r) : r[i] \notin Separators

DigitsOf(r) == SelectSeq(r, LAMBDA c : c \in DigitChars)

\* C4: for a raw input <letter><digits>, letter in {H,h,G,g}, each of the
\* three normalizers returns exactly [<uppercased letter><digits>, <digits>],
\* the digit run as written (leading zeros kept).
C4_TaggedInputKeys ==
    (last.op \in NormOps /\ IsTaggedInput(raw)) =>
        last.keys = << <<UpperLetter(raw[1])>> \o SubSeq(raw, 2, Len(raw)),
                       SubSeq(raw, 2, Len(raw)) >>

\* a lower-case tag with a leading zero, through the OT export's normalizer
C4_Witness ==
    /\ last.op = "norm_strong_keys_ot"
    /\ raw = <<"g", "0", "1">>
    /\ last.keys = << <<"G", "0", "1">>, <<"0", "1">> >>

\* C5: for a bare-digit input the default normalizers return
\* [H<digits>, G<digits>, <digits>] and the OT-biased one
\* [H<digits>, <digits>, G<digits>]; any other single piece that is not
\* <H|G><digits> is reduced to its digits and hedged in the same order, and
\* yields no key when it holds no digit.
C5_HedgedInputKeys ==
    (last.op \in NormOps /\ IsOnePiece(raw) /\ ~IsTaggedInput(raw)) =>
        LET d == DigitsOf(raw)
        IN  /\ (d = <<>>) => last.keys = <<>>
            /\ (d # <<>> /\ last.op \in DefaultNormOps) =>
                   last.keys = << <<"H">> \o d, <<"G">> \o d, d >>
            /\ (d # <<>> /\ last.op = "norm_strong_keys_ot") =>
                   last.keys = << <<"H">> \o d, d, <<"G">> \o d >>
            /\ IsDigitsInput(raw) => d = raw

\* bare digits through the default order
C5_Witness ==
    /\ last.op = "_norm_strong_keys"
    /\ raw = <<"0", "1">>
    /\ last.keys = << <<"H", "0", "1">>, <<"G", "0", "1">>, <<"0", "1">> >>

\* the keys the pieces of r produce, before deduplication
UndedupedKeys(op, r) ==
    IF ~Truthy(r) THEN <<>>
    ELSE CASE op = "_norm_strong_keys" -> AppPieceKeys(ReSplit(Strip(r)))
           [] op = "norm_strong_keys" -> BatchPieceKeys(ReSplit(Strip(r)))
           [] OTHER -> OTPieceKeys(ReSplit(Strip(r)))

FirstIndex(s, k) == CHOOSE i \in 1..Len(s) : s[i] = k /\ \A j \in 1..(i - 1) : s[j] # k

\* C6: for every raw input the normalizer returns a finite sequence in which
\* no key appears twice, the keys are those of the pieces in first-occurrence
\* order, none is the empty string; empty and None input yield the empty
\* sequence.
C6_NoDuplicateKeys ==
    last.op \in NormOps =>
        LET ks == last.keys
            all == UndedupedKeys(last.op, raw)
        IN  /\ \A i, j \in 1..Len(ks) : ks[i] = ks[j] => i = j
            /\ \A i \in 1..Len(ks) : ks[i] # <<>>
            /\ SeqToSet(ks) = SeqToSet(all)
            /\ \A i, j \in 1..Len(ks) :
                   i < j => FirstIndex(all, ks[i]) < FirstIndex(all, ks[j])
            /\ (raw = None \/ raw = <<>>) => ks = <<>>

\* a tagged piece followed by the same number bare: H1 and 1 come twice
C6_Witness ==
    /\ last.op = "_norm_strong_keys"
    /\ raw = <<"H", "1", "/", "1">>
    /\ last.keys = << <<"H", "1">>, <<"1">>, <<"G", "1">> >>

----------------------------------------------------------------------------
(* Properties of the Token Enricher *)

Served == last.op = "get_interlinear_verse"

Complete(row) ==
    OrEmpty(row.lemma) # <<>> /\ OrEmpty(row.translit) # <<>> /\ OrEmpty(row.gloss) # <<>>

\* the positions of normalize(row.strong) whose key the store holds
PresentKeys(row) ==
    {n \in 1..Len(_norm_strong_keys(OrEmpty(row.strong))) :
        _norm_strong_keys(OrEmpty(row.strong))[n] \in DOMAIN by_strong}

FirstPresent(row) ==
    CHOOSE n \in PresentKeys(row) : \A m \in PresentKeys(row) : n <= m

\* The candidate entry the contract prescribes for a row that is not complete.
CandidateFor(row, lk) ==
    IF PresentKeys(row) # {}
    THEN /\ lk.via = "strong"
         /\ lk.entry = by_strong[_norm_strong_keys(OrEmpty(row.strong))[FirstPresent(row)]]
         /\ lk.strong_lookups =
                SubSeq(_norm_strong_keys(OrEmpty(row.strong)), 1, FirstPresent(row))
         /\ lk.lemma_lookups = <<>>
    ELSE /\ lk.strong_lookups = _norm_strong_keys(OrEmpty(row.strong))
         /\ IF OrEmpty(row.lemma) = <<>>
            THEN lk.via = "none" /\ lk.entry = EmptyEntry /\ lk.lemma_lookups = <<>>
            ELSE /\ lk.lemma_lookups = <<OrEmpty(row.lemma)>>
                 /\ IF OrEmpty(row.lemma) \in DOMAIN by_lemma
                    THEN lk.via = "lemma" /\ lk.entry = by_lemma[OrEmpty(row.lemma)]
                    ELSE lk.via = "none" /\ lk.entry = EmptyEntry

\* C1: when enrich does not short-circuit, the candidate is the entry under
\* the first key of normalize(token.strong) that the store holds; the
\* lemma-keyed entry is looked up only when no key is held and the token's
\* lemma is non-empty; with no hit the candidate is empty.  A Strong's hit
\* suppresses the lemma lookup whatever the entry's fields are.
C1_StrongsFirstThenLemma ==
    Served =>
        \A i \in DOMAIN last.lookups :
            ~Complete(tokens[i]) => CandidateFor(tokens[i], last.lookups[i])

\* A Strong's hit with no translit, for a token without translit whose lemma
\* has a lemma-keyed entry that has one: the translit stays empty.
C1_Witness ==
    /\ Served
    /\ \E i \in DOMAIN last.lookups :
          /\ last.lookups[i].via = "strong"
          /\ last.lookups[i].entry.translit = <<>>
          /\ OrEmpty(tokens[i].translit) = <<>>
          /\ OrEmpty(tokens[i].lemma) \in DOMAIN by_lemma
          /\ by_lemma[OrEmpty(tokens[i].lemma)].translit # <<>>
          /\ last.lookups[i].lemma_lookups = <<>>
          /\ last.tokens[i].resolved_translit = <<>>

OwnOrCandidate(own, cand) == IF own # <<>> THEN own ELSE cand

\* C2: each of resolved_lemma, resolved_translit, resolved_gloss is the
\* token's own field when non-empty, else the candidate's field, else "";
\* the original fields come back as stored (NULL read as ""), and
\* translation equals resolved_gloss.
C2_PerFieldFallback ==
    Served =>
        \A i \in DOMAIN last.tokens :
            /\ last.tokens[i].lemma = OrEmpty(tokens[i].lemma)
            /\ last.tokens[i].translit = OrEmpty(tokens[i].translit)
            /\ last.tokens[i].gloss = OrEmpty(tokens[i].gloss)
            /\ last.tokens[i].surface = OrEmpty(tokens[i].surface)
            /\ last.tokens[i].morph = OrEmpty(tokens[i].morph)
            /\ last.tokens[i].strong = OrEmpty(tokens[i].strong)
            /\ last.tokens[i].resolved_lemma =
                   OwnOrCandidate(OrEmpty(tokens[i].lemma), last.lookups[i].entry.lemma)
            /\ last.tokens[i].resolved_translit =
                   OwnOrCandidate(OrEmpty(tokens[i].translit), last.lookups[i].entry.translit)
            /\ last.tokens[i].resolved_gloss =
                   OwnOrCandidate(OrEmpty(tokens[i].gloss), last.lookups[i].entry.gloss)
            /\ last.tokens[i].translation = last.tokens[i].resolved_gloss

\* A token keeps its own lemma, which differs from the candidate's, and takes
\* the candidate's gloss.
C2_Witness ==
    /\ Served
    /\ \E i \in DOMAIN last.tokens :
          /\ tokens[i].lemma = <<"a">>
          /\ tokens[i].gloss = <<>>
          /\ last.lookups[i].entry.lemma = <<"p">>
          /\ last.lookups[i].entry.gloss = <<"r">>
          /\ last.tokens[i].resolved_lemma = <<"a">>
          /\ last.tokens[i].resolved_gloss = <<"r">>
          /\ last.tokens[i].translation = <<"r">>

\* C3: a token with non-empty lemma, translit and gloss causes no lookup,
\* Strong's-keyed or lemma-keyed, and its resolved fields are its own,
\* whatever the store holds for its strong code.
C3_ShortCircuit ==
    Served =>
        \A i \in DOMAIN last.tokens :
            Complete(tokens[i]) =>
                /\ last.lookups[i].strong_lookups = <<>>
                /\ last.lookups[i].lemma_lookups = <<>>
                /\ last.tokens[i].resolved_lemma = tokens[i].lemma
                /\ last.tokens[i].resolved_translit = tokens[i].translit
                /\ last.tokens[i].resolved_gloss = tokens[i].gloss

\* A complete token whose strong code and lemma both have entries in the
\* store that differ from the token's fields.
C3_Witness ==
    /\ Served
    /\ \E i \in DOMAIN last.tokens :
          /\ Complete(tokens[i])
          /\ tokens[i].strong = <<"H", "1">>
          /\ <<"H", "1">> \in DOMAIN by_strong
          /\ by_strong[<<"H", "1">>].gloss # tokens[i].gloss
          /\ tokens[i].lemma \in DOMAIN by_lemma
          /\ last.tokens[i].resolved_gloss = tokens[i].gloss

----------------------------------------------------------------------------
(* Properties of the Lexicon Store *)

\* The cells of a lexicon row as the loaders read them: absent is "", and
\* surrounding whitespace is dropped.
Cell(v) == Strip(OrEmpty(v))

EntryOf(row) ==
    [lemma |-> Cell(row.lemma), translit |-> Cell(row.translit), gloss |-> Cell(row.gloss)]

\* The keys a Strong's row is stored under: none when its code is empty.
AppKeysOf(row) ==
    IF Cell(row.strong) = <<>> THEN {} ELSE SeqToSet(_norm_strong_keys(Cell(row.strong)))

BatchKeysOf(row) ==
    IF Cell(row.strong) = <<>> THEN {} ELSE SeqToSet(norm_strong_keys(Cell(row.strong)))

LemmaKeysOf(row) == IF Cell(row.lemma) = <<>> THEN {} ELSE {Cell(row.lemma)}

LastRowWith(k, rows, keysOf(_)) ==
    CHOOSE n \in 1..Len(rows) :
        /\ k \in keysOf(rows[n])
        /\ \A m \in 1..Len(rows) : k \in keysOf(rows[m]) => m <= n

\* d holds exactly the keys of the rows, each with the entry of the last row
\* that has it.
LastWriterWins(d, rows, keysOf(_)) ==
    /\ DOMAIN d = UNION {keysOf(rows[n]) : n \in 1..Len(rows)}
    /\ <<>> \notin DOMAIN d
    /\ \A k \in DOMAIN d : d[k] = EntryOf(rows[LastRowWith(k, rows, keysOf)])

\* C7: after the store is built, every key maps to the lemma, translit and
\* gloss of the last row, in file order, whose normalized code contains the
\* key, and every lemma to the last row with that lemma; a row with an empty
\* code or lemma adds no key.  This holds of the serving process's store and
\* of the maps the batch resolver loads.
C7_LastWriterWins ==
    /\ loaded =>
          /\ LastWriterWins(by_strong, strongs_csv, AppKeysOf)
          /\ LastWriterWins(by_lemma, greek_csv, LemmaKeysOf)
    /\ last.op = "apply_lexicon_to_db" =>
          /\ LastWriterWins(last.strongs_map, strongs_csv, BatchKeysOf)
          /\ LastWriterWins(last.greek_map, greek_csv, LemmaKeysOf)

\* An H row, then a G row with the same number: the bare-digit key they share
\* holds the G row's entry, and H1 still holds the H row's.
C7_Witness ==
    /\ loaded
    /\ strongs_csv = <<RowH1, RowG1>>
    /\ by_strong[<<"1">>] = EntryOf(RowG1)
    /\ by_strong[<<"H", "1">>] = EntryOf(RowH1)
    /\ EntryOf(RowG1) # EntryOf(RowH1)

----------------------------------------------------------------------------
(* Properties of the Batch Resolver *)

RanApply == last.op = "apply_lexicon_to_db" /\ last.exit = "ok"

TokenFields == {"lemma", "translit", "gloss"}

NonEmpty(v) == OrEmpty(v) # <<>>

\* the candidate entry's values, over the Strong's map and the lemma map
Supplied(f) ==
    {last.strongs_map[k][f] : k \in DOMAIN last.strongs_map}
        \cup {last.greek_map[k][f] : k \in DOMAIN last.greek_map}

\* C8: after a fillEmpty run every lemma, translit and gloss that was
\* non-empty before the run holds the same stored value; after an overwrite
\* run no field that was non-empty is empty, and a field changes only to a
\* non-empty value the candidate entry supplies.
C8_NonEmptyFieldsKept ==
    RanApply =>
        \A i \in 1..Len(tokens) : \A f \in TokenFields :
            IF last.overwrite
            THEN /\ NonEmpty(last.before[i][f]) => NonEmpty(tokens[i][f])
                 /\ tokens[i][f] # last.before[i][f] =>
                        NonEmpty(tokens[i][f]) /\ tokens[i][f] \in Supplied(f)
            ELSE NonEmpty(last.before[i][f]) => tokens[i][f] = last.before[i][f]

\* the rows whose stored fields differ after the run
ChangedRows == {i \in 1..Len(tokens) : tokens[i] # last.before[i]}

\* C9: the batch resolver writes a row exactly when one of its lemma,
\* translit, gloss changes: the rows it leaves different from before are as
\* many as the updates it counts, and they differ in those three columns
\* only.
C9_WriteIffChange ==
    RanApply =>
        /\ Len(tokens) = Len(last.before)
        /\ last.updated = Cardinality(ChangedRows)
        /\ \A i \in 1..Len(tokens) :
              tokens[i] = UpdateRow(last.before[i], tokens[i].lemma,
                                    tokens[i].translit, tokens[i].gloss)
        /\ ~last.printed => last.updated = 0

\* One row that misses its gloss only, a lexicon with a gloss for its code,
\* fillEmpty: the gloss is filled, lemma and translit are as before, and one
\* update is counted.
C9_Witness ==
    /\ RanApply
    /\ ~last.overwrite
    /\ Len(last.before) = 1
    /\ last.before[1].strong = <<"H", "1">>
    /\ last.before[1].lemma = <<"a">>
    /\ last.before[1].translit = <<"t">>
    /\ last.before[1].gloss = <<>>
    /\ <<"H", "1">> \in DOMAIN last.strongs_map
    /\ last.strongs_map[<<"H", "1">>].gloss = <<"r">>
    /\ tokens[1].gloss = <<"r">>
    /\ tokens[1].lemma = <<"a">>
    /\ tokens[1].translit = <<"t">>
    /\ last.updated = 1

----------------------------------------------------------------------------
(* Request time against ingest time *)

RanExportWrite == last.op = "export_ot_interlinear" /\ last.write_db

HasEmptyField(row) == \E f \in TokenFields : ~NonEmpty(row[f])

\* the stored lemma, translit, gloss of row `after` are what enrich resolves
\* for row `before` over the store loaded from the same lexicon files
StoredAsResolved(before, after) ==
    /\ OrEmpty(after.lemma) = enrich_token(before, by_strong, by_lemma).resolved_lemma
    /\ OrEmpty(after.translit) = enrich_token(before, by_strong, by_lemma).resolved_translit
    /\ OrEmpty(after.gloss) = enrich_token(before, by_strong, by_lemma).resolved_gloss

\* C10: for every token with an empty field and every lexicon, the lemma,
\* translit and gloss that a fillEmpty batch run and the OT export's
\* write-back leave stored equal the resolved_lemma, resolved_translit and
\* resolved_gloss enrich returns for the token.
C10_IngestAsRequest ==
    (loaded /\ ((RanApply /\ ~last.overwrite) \/ RanExportWrite)) =>
        \A i \in 1..Len(tokens) :
            HasEmptyField(last.before[i]) => StoredAsResolved(last.before[i], tokens[i])

----------------------------------------------------------------------------
(* Idempotence of the Token Enricher *)

\* The row made of the original fields an enriched token carries; the
\* resolved fields it carries too are not columns enrich_token reads.
RowOfOutput(t) ==
    [surface |-> t.surface, lemma |-> t.lemma, translit |-> t.translit,
     gloss |-> t.gloss, morph |-> t.morph, strong |-> t.strong,
     token_index |-> t.index,
     resolved_lemma |-> t.resolved_lemma,
     resolved_translit |-> t.resolved_translit,
     resolved_gloss |-> t.resolved_gloss]

\* C11: enrich applied to the original fields carried in an output of enrich
\* gives the same resolved_lemma, resolved_translit, resolved_gloss and
\* translation (indeed the same output), over the same store.
C11_EnrichIdempotent ==
    Served =>
        \A i \in DOMAIN last.tokens :
            enrich_token(RowOfOutput(last.tokens[i]), by_strong, by_lemma)
                = last.tokens[i]

\* An output whose resolved fields differ from its original ones, two of
\* them taken from a Strong's entry, is reproduced from its original fields.
C11_Witness ==
    /\ Served
    /\ \E i \in DOMAIN last.tokens :
          /\ last.lookups[i].via = "strong"
          /\ last.tokens[i].lemma = <<>>
          /\ last.tokens[i].resolved_lemma # <<>>
          /\ last.tokens[i].gloss = <<>>
          /\ last.tokens[i].resolved_gloss # <<>>
          /\ enrich_token(RowOfOutput(last.tokens[i]), by_strong, by_lemma)
                 = last.tokens[i]

----------------------------------------------------------------------------
(* Loaders: seed.py, tools/seed_ot.py, tools/seed_nt.py, merge_tokens.py *)

Lowers ==
    <<"a", "b", "c", "d", "e", "f", "g", "h", "i", "j", "k", "l", "m",
      "n", "o", "p", "q", "r", "s", "t", "u", "v", "w", "x", "y", "z">>
Uppers ==
    <<"A", "B", "C", "D", "E", "F", "G", "H", "I", "J", "K", "L", "M",
      "N", "O", "P", "Q", "R", "S", "T", "U", "V", "W", "X", "Y", "Z">>

\* str.upper() and str.lower() on ASCII text
UpperChar(c) ==
    IF \E i \in 1..26 : Lowers[i] = c
    THEN Uppers[CHOOSE i \in 1..26 : Lowers[i] = c] ELSE c
LowerChar(c) ==
    IF \E i \in 1..26 : Uppers[i] = c
    THEN Lowers[CHOOSE i \in 1..26 : Uppers[i] = c] ELSE c
StrUpper(s) == [i \in 1..Len(s) |-> UpperChar(s[i])]
StrLower(s) == [i \in 1..Len(s) |-> LowerChar(s[i])]

Digits == <<"0", "1", "2", "3", "4", "5", "6", "7", "8", "9">>
DigitVal(c) == (CHOOSE i \in 1..10 : Digits[i] = c) - 1

RECURSIVE StripZeros(_)
StripZeros(d) ==
    IF Len(d) > 1 /\ Head(d) = "0" THEN StripZeros(Tail(d)) ELSE d

\* int(s) on ASCII text: surrounding whitespace and one sign are accepted,
\* then only digits.  Python integers are unbounded, so the value is kept as
\* its digits; ok = FALSE is the ValueError.
ParseInt(s) ==
    LET t == Strip(s)
        signed == t # <<>> /\ Head(t) \in {"+", "-"}
        body == IF signed THEN Tail(t) ELSE t
    IN  [ok |-> body # <<>> /\ \A i \in 1..Len(body) : body[i] \in DigitChars,
         neg |-> signed /\ Head(t) = "-",
         digits |-> StripZeros(body)]

Zero == [ok |-> TRUE, neg |-> FALSE, digits |-> <<"0">>]

\* 2^63 - 1 and 2^63, the bounds of an SQLite INTEGER
MaxInt64 ==
    <<"9", "2", "2", "3", "3", "7", "2", "0", "3", "6", "8", "5", "4", "7",
      "7", "5", "8", "0", "7">>
MinInt64 ==
    <<"9", "2", "2", "3", "3", "7", "2", "0", "3", "6", "8", "5", "4", "7",
      "7", "5", "8", "0", "8">>

\* a <= b for two numerals of the same length
RECURSIVE DigitsLeq(_, _)
DigitsLeq(a, b) ==
    IF a = <<>> THEN TRUE
    ELSE IF DigitVal(Head(a)) # DigitVal(Head(b))
         THEN DigitVal(Head(a)) < DigitVal(Head(b))
         ELSE DigitsLeq(Tail(a), Tail(b))

\* sqlite3 binds a Python int only when it fits 64 bits (else OverflowError)
FitsInt64(n) ==
    \/ Len(n.digits) < 19
    \/ /\ Len(n.digits) = 19
       /\ DigitsLeq(n.digits, IF n.neg THEN MinInt64 ELSE MaxInt64)

RECURSIVE DigitsVal(_)
DigitsVal(d) ==
    IF d = <<>> THEN 0
    ELSE DigitsVal(SubSeq(d, 1, Len(d) - 1)) * 10 + DigitVal(d[Len(d)])

\* the stored INTEGER
IntVal(n) == IF n.neg THEN 0 - DigitsVal(n.digits) ELSE DigitsVal(n.digits)

\* csv.DictReader fieldnames that `required` asks for and the file lacks
MutMissingColumns(file) == {}

MissingColumns(file) == FIELDS \ file.fieldnames

\* coerce_row: ok = FALSE is the ValueError it raises.
coerce_row(row) ==
    LET text(key) == Strip(OrEmpty(Get(row, key)))
        chapter == ParseInt(Get(row, "chapter"))
        verse == ParseInt(Get(row, "verse"))
        token_index == ParseInt(Get(row, "token_index"))
    IN  [ok |-> /\ chapter.ok /\ verse.ok /\ token_index.ok
                /\ text("book_code") # <<>> /\ text("surface") # <<>>,
         row |-> [book_code |-> text("book_code"), chapter |-> chapter,
                  verse |-> verse, token_index |-> token_index,
                  surface |-> text("surface"), lemma |-> text("lemma"),
                  translit |-> text("translit"), gloss |-> text("gloss"),
                  morph |-> text("morph"), strong |-> text("strong")]]

\* An INSERT succeeds when its three integers can be bound.
Binds(p) ==
    /\ p.chapter.ok /\ p.verse.ok /\ p.token_index.ok
    /\ FitsInt64(p.chapter) /\ FitsInt64(p.verse) /\ FitsInt64(p.token_index)

\* INSERT_SQL: the row appended to the table.  Row ids are handed out in
\* insertion order; the model numbers the rows by their position.
InsertRow(table, p) ==
    Append(table,
           [id |-> Len(table) + 1, book_code |-> p.book_code,
            chapter |-> IntVal(p.chapter), verse |-> IntVal(p.verse),
            token_index |-> IntVal(p.token_index), surface |-> p.surface,
            lemma |-> p.lemma, translit |-> p.translit, gloss |-> p.gloss,
            morph |-> p.morph, strong |-> p.strong])

\* conn.executemany(INSERT_SQL, batch): stops at the first row that fails,
\* leaving the rows before it in the open transaction.
RECURSIVE executemany(_, _)
executemany(table, batch) ==
    IF batch = <<>> THEN [ok |-> TRUE, table |-> table]
    ELSE IF Binds(Head(batch))
         THEN executemany(InsertRow(table, Head(batch)), Tail(batch))
         ELSE [ok |-> FALSE, table |-> table]

\* a fallback that keeps the partial inserts of the failed batch
MutRollback(committed, working) == working

\* conn.rollback()
Rollback(committed, working) == committed

\* "Try row-by-row to isolate bad lines"
RECURSIVE RowByRow(_, _)
RowByRow(st, batch) ==
    IF batch = <<>> THEN st
    ELSE IF Binds(Head(batch))
         THEN RowByRow([st EXCEPT !.table = InsertRow(@, Head(batch)),
                                  !.total = @ + 1], Tail(batch))
         ELSE RowByRow([st EXCEPT !.bad = @ + 1], Tail(batch))

\* the body of `for batch in batched(...)`
InsertBatch(st, batch) ==
    LET attempt == executemany(st.table, batch)
    IN  IF attempt.ok
        THEN [st EXCEPT !.table = attempt.table, !.total = @ + Len(batch)]
        ELSE RowByRow([st EXCEPT !.table = Rollback(st.table, attempt.table)],
                      batch)

\* batched((coerce_row(r) for r in reader), n) driving the insert loop: rows
\* are coerced as they are pulled into the batch being collected, so a
\* ValueError of coerce_row leaves the loop and seed().
RECURSIVE SeedFrom(_, _, _, _)
SeedFrom(rows, n, batch, st) ==
    IF rows = <<>>
    THEN IF batch # <<>> THEN InsertBatch(st, batch) ELSE st
    ELSE LET c == coerce_row(Head(rows))
         IN  IF ~c.ok THEN [st EXCEPT !.exit = "ValueError"]
             ELSE IF Len(batch) + 1 >= n
                  THEN SeedFrom(Tail(rows), n, <<>>,
                                InsertBatch(st, Append(batch, c.row)))
                  ELSE SeedFrom(Tail(rows), n, Append(batch, c.row), st)

\* a loader that validates the header before it clears the table
MutCleared(table, append) == table

\* "Clear existing data unless --append": DELETE FROM tokens and commit,
\* before the CSV is opened
Cleared(table, append) == IF append THEN table ELSE <<>>

\* seed(csv_path, db_path, append, batch_size)
seed(file, table, append, batch_size) ==
    LET start == [table |-> Cleared(table, append),
                  total |-> 0, bad |-> 0, exit |-> "ok"]
    IN  IF MissingColumns(file) # {}
        THEN [start EXCEPT !.exit = "RuntimeError"]
        ELSE SeedFrom(file.rows, batch_size, <<>>, start)

\* row.get(key, "")
GetOr(row, key) == IF key \in DOMAIN row THEN row[key] ELSE Empty

\* row.get("book_code") or row.get("book") or ""
BookCell(row) ==
    IF Truthy(Get(row, "book_code")) THEN Get(row, "book_code")
    ELSE IF Truthy(Get(row, "book")) THEN Get(row, "book") ELSE Empty

\* int(row.get(key) or 0)
IntOr0(row, key) ==
    IF Truthy(Get(row, key)) THEN ParseInt(Get(row, key)) ELSE Zero

\* the VALUES of the per-row INSERT of seed_ot.py and seed_nt.py
ToolParams(row, book_code) ==
    [book_code |-> book_code, chapter |-> IntOr0(row, "chapter"),
     verse |-> IntOr0(row, "verse"), token_index |-> IntOr0(row, "token_index"),
     surface |-> GetOr(row, "surface"), lemma |-> GetOr(row, "lemma"),
     translit |-> GetOr(row, "translit"), gloss |-> GetOr(row, "gloss"),
     morph |-> GetOr(row, "morph"), strong |-> GetOr(row, "strong")]

\* The tools insert row after row and commit once at the end: an int() or a
\* bind that raises ends the script with its inserts uncommitted.
RECURSIVE ToolInsert(_, _, _)
ToolInsert(params, committed, working) ==
    IF params = <<>>
    THEN [table |-> working, count |-> Len(working) - Len(committed),
          exit |-> "ok"]
    ELSE IF Binds(Head(params))
         THEN ToolInsert(Tail(params), committed, InsertRow(working, Head(params)))
         ELSE [table |-> committed, count |-> 0,
               exit |-> IF Head(params).chapter.ok /\ Head(params).verse.ok
                           /\ Head(params).token_index.ok
                        THEN "OverflowError" ELSE "ValueError"]

\* python tools/seed_ot.py --csv file
seed_ot(file, table) ==
    ToolInsert([i \in 1..Len(file.rows) |->
                   ToolParams(file.rows[i], Strip(BookCell(file.rows[i])))],
               table, table)

NT ==
    {<<"M", "A", "T">>, <<"M", "R", "K">>, <<"L", "U", "K">>,
     <<"J", "H", "N">>, <<"A", "C", "T">>, <<"R", "O", "M">>,
     <<"1", "C", "O">>, <<"2", "C", "O">>, <<"G", "A", "L">>,
     <<"E", "P", "H">>, <<"P", "H", "P">>, <<"C", "O", "L">>,
     <<"1", "T", "H">>, <<"2", "T", "H">>, <<"1", "T", "I">>,
     <<"2", "T", "I">>, <<"T", "I", "T">>, <<"P", "H", "M">>,
     <<"H", "E", "B">>, <<"J", "A", "S">>, <<"1", "P", "E">>,
     <<"2", "P", "E">>, <<"1", "J", "N">>, <<"2", "J", "N">>,
     <<"3", "J", "N">>, <<"J", "U", "D">>, <<"R", "E", "V">>}

\* the rows DELETE ... WHERE UPPER(book_code) IN NT leaves, renumbered
Renumber(table) == [i \in 1..Len(table) |-> [table[i] EXCEPT !.id = i]]

DeleteNT(table) ==
    Renumber(SelectSeq(table, LAMBDA r : StrUpper(r.book_code) \notin NT))

\* (row.get("book_code") or row.get("book") or "").upper().strip()
NTBook(row) == Strip(StrUpper(BookCell(row)))

\* python tools/seed_nt.py --csv file
seed_nt(file, table) ==
    LET nt_rows == SelectSeq(file.rows, LAMBDA row : NTBook(row) \in NT)
    IN  ToolInsert([i \in 1..Len(nt_rows) |->
                       ToolParams(nt_rows[i], NTBook(nt_rows[i]))],
                   DeleteNT(table), DeleteNT(table))

\* key = (row["book_code"], row["chapter"], row["verse"], row["token_index"])
MergeKey(row) ==
    <<row["book_code"], row["chapter"], row["verse"], row["token_index"]>>

\* w.writerow({k: row.get(k, "") for k in FIELDS})
Written(row) == [k \in FIELDS |-> OrEmpty(GetOr(row, k))]

RECURSIVE MergeRows(_, _, _)
MergeRows(rows, seen, out) ==
    IF rows = <<>> THEN [seen |-> seen, out |-> out]
    ELSE IF MergeKey(Head(rows)) \in seen
         THEN MergeRows(Tail(rows), seen, out)
         ELSE MergeRows(Tail(rows), seen \cup {MergeKey(Head(rows))},
                        Append(out, Written(Head(rows))))

\* `for path in (args.nt, args.ot)`: a file that lacks a column raises before
\* any of its rows is read.
RECURSIVE MergeFrom(_, _, _)
MergeFrom(files, seen, out) ==
    IF files = <<>> THEN [out |-> out, exit |-> "ok"]
    ELSE IF MissingColumns(Head(files)) # {}
         THEN [out |-> out, exit |-> "RuntimeError"]
         ELSE LET m == MergeRows(Head(files).rows, seen, out)
              IN  MergeFrom(Tail(files), m.seen, m.out)

\* python merge_tokens.py --nt nt --ot ot
merge_tokens(nt, ot) == MergeFrom(<<nt, ot>>, {}, <<>>)

----------------------------------------------------------------------------
(* Loader runs *)

Loading(run, ran) ==
    /\ Len(run.table) <= MaxTableRows
    /\ tokens' = run.table
    /\ last' = ran
    /\ UNCHANGED <<raw, strongs_csv, greek_csv, tokens_csv, missing, by_strong, by_lemma, loaded>>

RanSeed(append, batch_size, before, run) ==
    [op |-> "seed", append |-> append, batch_size |-> batch_size,
     before |-> before, total |-> run.total, bad |-> run.bad, exit |-> run.exit]

\* python seed.py --csv tokens_csv [--append] --batch-size batch_size
Seed(append, batch_size) ==
    Loading(seed(tokens_csv, tokens, append, batch_size),
            RanSeed(append, batch_size, tokens,
                    seed(tokens_csv, tokens, append, batch_size)))

RanTool(op, before, run) ==
    [op |-> op, before |-> before, count |-> run.count, exit |-> run.exit]

\* python tools/seed_ot.py --csv tokens_csv
SeedOT ==
    Loading(seed_ot(tokens_csv, tokens),
            RanTool("seed_ot", tokens, seed_ot(tokens_csv, tokens)))

\* python tools/seed_nt.py --csv tokens_csv
SeedNT ==
    Loading(seed_nt(tokens_csv, tokens),
            RanTool("seed_nt", tokens, seed_nt(tokens_csv, tokens)))

RanMerge(nt, ot, run) ==
    [op |-> "merge_tokens", nt |-> nt, ot |-> ot, out |-> run.out,
     exit |-> run.exit]

\* python merge_tokens.py --nt nt --ot ot
MergeTokens(nt, ot) ==
    /\ last' = RanMerge(nt, ot, merge_tokens(nt, ot))
    /\ UNCHANGED <<raw, strongs_csv, greek_csv, tokens_csv, missing, tokens, by_strong, by_lemma, loaded>>

(* Inputs: source files of the loaders *)

SrcRow(book_code, chapter, token_index, surface) ==
    [book_code |-> book_code, chapter |-> chapter, verse |-> <<"1">>,
     token_index |-> token_index, surface |-> surface, lemma |-> <<"l">>,
     translit |-> <<>>, gloss |-> <<>>, morph |-> <<>>,
     strong |-> <<"H", "1">>]

SrcGen1 == SrcRow(<<"G", "E", "N">>, <<"1">>, <<"1">>, <<"w">>)
SrcGen2 == SrcRow(<<"G", "E", "N">>, <<"1">>, <<"2">>, <<"w">>)
SrcJhn1 == SrcRow(<<" ", "j", "h", "n">>, <<"1", " ">>, <<"1">>, <<"w", " ">>)
SrcBadNum == SrcRow(<<"G", "E", "N">>, <<"x">>, <<"1">>, <<"w">>)
SrcNoSurface == SrcRow(<<"G", "E", "N">>, <<"1">>, <<"1">>, <<" ">>)
\* a chapter beyond 2^63
SrcBig ==
    SrcRow(<<"G", "E", "N">>,
           <<"9", "9", "9", "9", "9", "9", "9", "9", "9", "9",
             "9", "9", "9", "9", "9", "9", "9", "9", "9", "9">>,
           <<"1">>, <<"w">>)

SourceRows == {SrcGen1, SrcGen2, SrcJhn1, SrcBadNum, SrcNoSurface, SrcBig}

\* the row of a file whose header has no such column
Without(row, column) == [k \in DOMAIN row \ {column} |-> row[k]]

\* files that lack the strong column
ShortFile(rows) ==
    SourceFile(FIELDS \ {"strong"},
               [i \in 1..Len(rows) |-> Without(rows[i], "strong")])

SeedFiles ==
    {SourceFile(FIELDS, rows) : rows \in SeqsUpTo(SourceRows, MaxSeedRows)}
    \cup {ShortFile(rows) : rows \in SeqsUpTo({SrcGen1, SrcJhn1}, MaxSeedRows)}

\* the other file handed to merge_tokens
MergeFiles ==
    {NoSource, SourceFile(FIELDS, <<SrcGen1>>), ShortFile(<<SrcGen2>>)}

InitSeed ==
    /\ raw = <<>>
    /\ strongs_csv = <<>>
    /\ greek_csv = <<>>
    /\ tokens_csv \in SeedFiles
    /\ missing = {}
    /\ tokens = <<>>
    /\ by_strong = EmptyDict
    /\ by_lemma = EmptyDict
    /\ loaded = FALSE
    /\ last = NoOp

NextSeed ==
    \/ \E append \in BOOLEAN, batch_size \in 1..MaxBatch : Seed(append, batch_size)
    \/ SeedOT
    \/ SeedNT
    \/ \E other \in MergeFiles : MergeTokens(tokens_csv, other)
    \/ \E other \in MergeFiles : MergeTokens(other, tokens_csv)

SpecSeed == InitSeed /\ [][NextSeed]_vars

----------------------------------------------------------------------------
(* Properties of the loaders *)

RanSeedOn(file) == last.op = "seed" /\ MissingColumns(file) = {}

\* the table seed() starts inserting into
SeedBase == IF last.append THEN last.before ELSE <<>>

NonNumeric(cell) == ~ParseInt(cell).ok
Blank(cell) == Strip(OrEmpty(cell)) = <<>>

\* a malformed source row: a non-numeric chapter, verse or token_index, or
\* an empty book_code or surface
Malformed(row) ==
    \/ NonNumeric(row["chapter"]) \/ NonNumeric(row["verse"])
    \/ NonNumeric(row["token_index"])
    \/ Blank(row["book_code"]) \/ Blank(row["surface"])

\* a well-formed row whose INSERT fails: an integer beyond 64 bits
Unstorable(row) ==
    /\ ~Malformed(row)
    /\ \E k \in {"chapter", "verse", "token_index"} : ~FitsInt64(ParseInt(row[k]))

Storable(row) == ~Malformed(row) /\ ~Unstorable(row)

\* the table row a storable source row becomes, at position j
StoredAt(row, j) ==
    [id |-> j, book_code |-> Strip(row["book_code"]),
     chapter |-> IntVal(ParseInt(row["chapter"])),
     verse |-> IntVal(ParseInt(row["verse"])),
     token_index |-> IntVal(ParseInt(row["token_index"])),
     surface |-> Strip(row["surface"]), lemma |-> Strip(row["lemma"]),
     translit |-> Strip(row["translit"]), gloss |-> Strip(row["gloss"]),
     morph |-> Strip(row["morph"]), strong |-> Strip(row["strong"])]

\* the table is base followed by the stored form of rows, in order, once each
IsBasePlus(table, base, rows) ==
    /\ Len(table) = Len(base) + Len(rows)
    /\ \A j \in 1..Len(base) : table[j] = base[j]
    /\ \A i \in 1..Len(rows) : table[Len(base) + i] = StoredAt(rows[i], Len(base) + i)

\* C12: in the seed loader a malformed source row is isolated per row: it is
\* skipped and counted as bad, every other row of the file is still inserted,
\* and the job runs to completion.
C12_MalformedRowIsolated ==
    RanSeedOn(tokens_csv) =>
        /\ last.exit = "ok"
        /\ IsBasePlus(tokens, SeedBase, SelectSeq(tokens_csv.rows, Storable))
        /\ last.bad = Len(SelectSeq(tokens_csv.rows, LAMBDA r : ~Storable(r)))

\* the rows of the file that reach the insert loop: all of them, or, when a
\* row is malformed, the whole batches of n rows read before it
FirstMalformed(rows) ==
    IF \E i \in 1..Len(rows) : Malformed(rows[i])
    THEN CHOOSE i \in 1..Len(rows) :
            Malformed(rows[i]) /\ \A j \in 1..(i - 1) : ~Malformed(rows[j])
    ELSE Len(rows) + 1

Batched(rows, n) ==
    IF FirstMalformed(rows) > Len(rows) THEN rows
    ELSE SubSeq(rows, 1, ((FirstMalformed(rows) - 1) \div n) * n)

C15_MissingColumnFatal ==
    /\ (last.op = "seed" /\ MissingColumns(tokens_csv) # {}) =>
          /\ last.exit = "RuntimeError"
          /\ last.total = 0
          /\ tokens = SeedBase
    /\ (last.op = "merge_tokens" /\ FIELDS \ last.nt.fieldnames # {}) =>
          /\ last.exit = "RuntimeError"
          /\ last.out = <<>>
    /\ (last.op = "merge_tokens" /\ FIELDS \ last.nt.fieldnames = {}
          /\ FIELDS \ last.ot.fieldnames # {}) =>
          /\ last.exit = "RuntimeError"
          /\ last.out = merge_tokens(last.nt, NoSource).out

C15_Witness ==
    /\ last.op = "seed"
    /\ "strong" \in MissingColumns(tokens_csv)
    /\ tokens_csv.rows # <<>>
    /\ last.append /\ last.before # <<>>
    /\ last.exit = "RuntimeError"
    /\ tokens = last.before

SameToken(a, b) ==
    /\ a.book_code = b.book_code /\ a.chapter = b.chapter
    /\ a.verse = b.verse /\ a.token_index = b.token_index

\* the identity invariant of the tokens table
Identity(table) ==
    /\ \A i, j \in 1..Len(table) : SameToken(table[i], table[j]) => i = j
    /\ \A i \in 1..Len(table) :
          {table[j].token_index : j \in VerseRows(table, i)}
              = 1..Cardinality(VerseRows(table, i))

\* the source file is itself dense: loaded once into an empty table it gives
\* a table that satisfies the invariant
SourceIsDense ==
    LET once == seed(tokens_csv, <<>>, FALSE, 1)
    IN  once.exit = "ok" /\ once.bad = 0 /\ Identity(once.table)

\* C19: after any sequence of loader runs the tokens table satisfies the
\* identity invariant: (book_code, chapter, verse, token_index) is unique and
\* the token_index values of a verse are exactly 1..n.  Stated for the runs
\* that load a dense source file.
C19_IdentityInvariant == SourceIsDense => Identity(tokens)

----------------------------------------------------------------------------
(* Runs of the write-back tools with absent files and failing writes *)

\* A run of apply_lexicon_to_db.py that is ended by an exception raised at
\* the UPDATE of row k (the database is locked or cannot be written): main()
\* commits once, after the loop, so the connection is dropped with every
\* UPDATE of the run uncommitted.
ApplyLexiconFails(overwrite, k) ==
    /\ k \in 1..Len(tokens)
    /\ apply_lexicon_to_db(tokens, overwrite,
                           IfIsFile(StrongsFile, strongs_csv, missing),
                           IfIsFile(GreekFile, greek_csv, missing)).table[k] # tokens[k]
    /\ last' = [op |-> "apply_lexicon_to_db", overwrite |-> overwrite,
                before |-> tokens, failed |-> k, exit |-> "OperationalError"]
    /\ UNCHANGED <<raw, strongs_csv, greek_csv, tokens_csv, missing, tokens, by_strong, by_lemma, loaded>>

RunStrongs == {<<>>, <<"H", "1">>}
RunFields ==
    {<< <<"a">>, <<"t">>, <<"g">> >>, << <<"a">>, <<"t">>, <<>> >>,
     << <<"a">>, <<"t">>, <<" ">> >>, << <<>>, <<>>, None >>}
RunCells == {<<s, f[1], f[2], f[3]>> : s \in RunStrongs, f \in RunFields}

\* a lexicon file that does not exist has no content
InitRuns ==
    /\ raw = <<>>
    /\ tokens_csv = NoSource
    /\ missing \in SUBSET LexiconFiles
    /\ strongs_csv \in IF StrongsFile \in missing THEN {<<>>} ELSE {<<>>, <<RowH1>>}
    /\ greek_csv \in IF GreekFile \in missing THEN {<<>>} ELSE {<<>>, <<RowA>>}
    /\ tokens \in {TableOf(cells) : cells \in SeqsUpTo(RunCells, MaxTokens)}
    /\ by_strong = EmptyDict
    /\ by_lemma = EmptyDict
    /\ loaded = FALSE
    /\ last = NoOp

SpecAbsent == InitRuns /\ [][Next]_vars

NextRuns ==
    \/ Next
    \/ \E overwrite \in BOOLEAN, k \in 1..Len(tokens) : ApplyLexiconFails(overwrite, k)

SpecRuns == InitRuns /\ [][NextRuns]_vars

----------------------------------------------------------------------------
(* Properties of the write-back tools *)

\* the table a run of the batch resolver leaves when nothing fails
Unfailing ==
    apply_lexicon_to_db(last.before, last.overwrite,
                        IfIsFile(StrongsFile, strongs_csv, missing),
                        IfIsFile(GreekFile, greek_csv, missing)).table

\* C14: the batch resolver commits in bounded batches with a per-row
\* fallback, so a failure while processing one token leaves the updates of
\* the batches completed before it persisted and does not block the remaining
\* tokens: whatever the batch size, after a run in which the write of one
\* token fails every other token holds what an unfailing run stores.
C14_BatchedCommits ==
    (last.op = "apply_lexicon_to_db" /\ last.exit # "ok") =>
        \A i \in 1..Len(tokens) : i # last.failed => tokens[i] = Unfailing[i]

\* the lexicon file is absent or empty
Unavailable(name, rows) == name \in missing \/ rows = <<>>

\* C16: missing lexicon data is never an error: with either or both lexicon
\* files absent or empty the store is built, every lookup in the map of such
\* a file misses, enrich returns the empty string for the fields it cannot
\* resolve, and the batch resolver and the OT export finish without an error.
C16_MissingLexiconTolerated ==
    /\ (loaded /\ Unavailable(StrongsFile, strongs_csv)) => by_strong = EmptyDict
    /\ (loaded /\ Unavailable(GreekFile, greek_csv)) => by_lemma = EmptyDict
    /\ (Served /\ Unavailable(StrongsFile, strongs_csv)
               /\ Unavailable(GreekFile, greek_csv)) =>
          \A i \in DOMAIN last.tokens :
              /\ last.tokens[i].resolved_lemma = last.tokens[i].lemma
              /\ last.tokens[i].resolved_translit = last.tokens[i].translit
              /\ last.tokens[i].resolved_gloss = last.tokens[i].gloss
    /\ (last.op \in {"apply_lexicon_to_db", "export_ot_interlinear"}
          /\ (Unavailable(StrongsFile, strongs_csv) \/ Unavailable(GreekFile, greek_csv))) =>
          last.exit = "ok"

RanWriteBack == last.op \in {"apply_lexicon_to_db", "export_ot_interlinear"}

\* no row inserted or deleted, and only lemma, translit, gloss written
FrameKept ==
    /\ Len(tokens) = Len(last.before)
    /\ \A i \in 1..Len(tokens) :
          tokens[i] = UpdateRow(last.before[i], tokens[i].lemma,
                                tokens[i].translit, tokens[i].gloss)

\* the rows outside the selection of the run's mode, for a reading
\* filled(_) of "non-empty"
Unselected(filled(_)) ==
    {i \in 1..Len(last.before) :
        IF last.overwrite
        THEN ~filled(last.before[i].strong)
        ELSE /\ filled(last.before[i].lemma)
             /\ filled(last.before[i].translit)
             /\ filled(last.before[i].gloss)}

\* non-empty once NULL is read as '' and spaces are trimmed
NonBlank(v) == SqlTrim(v) # <<>>

\* C20: a batch resolver run and the OT export write-back never
\* insert or delete a row and never change surface, morph, strong, book_code,
\* chapter, verse or token_index; a batch run leaves every token outside the
\* selection unchanged (fillEmpty: lemma, translit and gloss all non-empty;
\* overwrite: strong empty).
C20_FrameAsStated ==
    RanWriteBack =>
        /\ FrameKept
        /\ last.op = "apply_lexicon_to_db" =>
              \A i \in Unselected(NonEmpty) : tokens[i] = last.before[i]

\* The frame with emptiness read as the SELECT reads it: a field that holds
\* only spaces counts as empty.
FrameTrimmed ==
    RanWriteBack =>
        /\ FrameKept
        /\ last.op = "apply_lexicon_to_db" =>
              \A i \in Unselected(NonBlank) : tokens[i] = last.before[i]

----------------------------------------------------------------------------
(* Book resolution and the verse and chapter endpoints: app.py *)

\* FALLBACK_BOOK_CODES as (code, name) pairs; data/book_codes.json is not
\* part of the sources, and load_book_codes falls back to this table.
FALLBACK_BOOK_CODES ==
    {<<<<"G", "E", "N">>,
       <<"G", "e", "n", "e", "s", "i", "s">>>>,
     <<<<"E", "X", "O">>,
       <<"E", "x", "o", "d", "u", "s">>>>,
     <<<<"L", "E", "V">>,
       <<"L", "e", "v", "i", "t", "i", "c", "u", "s">>>>,
     <<<<"N", "U", "M">>,
       <<"N", "u", "m", "b", "e", "r", "s">>>>,
     <<<<"D", "E", "U">>,
       <<"D", "e", "u", "t", "e", "r", "o", "n", "o", "m", "y">>>>,
     <<<<"J", "O", "S">>,
       <<"J", "o", "s", "h", "u", "a">>>>,
     <<<<"J", "D", "G">>,
       <<"J", "u", "d", "g", "e", "s">>>>,
     <<<<"R", "U", "T">>,
       <<"R", "u", "t", "h">>>>,
     <<<<"1", "S", "A">>,
       <<"1", " ", "S", "a", "m", "u", "e", "l">>>>,
     <<<<"2", "S", "A">>,
       <<"2", " ", "S", "a", "m", "u", "e", "l">>>>,
     <<<<"1", "K", "I">>,
       <<"1", " ", "K", "i", "n", "g", "s">>>>,
     <<<<"2", "K", "I">>,
       <<"2", " ", "K", "i", "n", "g", "s">>>>,
     <<<<"1", "C", "H">>,
       <<"1", " ", "C", "h", "r", "o", "n", "i", "c", "l", "e", "s">>>>,
     <<<<"2", "C", "H">>,
       <<"2", " ", "C", "h", "r", "o", "n", "i", "c", "l", "e", "s">>>>,
     <<<<"E", "Z", "R">>,
       <<"E", "z", "r", "a">>>>,
     <<<<"N", "E", "H">>,
       <<"N", "e", "h", "e", "m", "i", "a", "h">>>>,
     <<<<"E", "S", "T">>,
       <<"E", "s", "t", "h", "e", "r">>>>,
     <<<<"J", "O", "B">>,
       <<"J", "o", "b">>>>,
     <<<<"P", "S", "A">>,
       <<"P", "s", "a", "l", "m", "s">>>>,
     <<<<"P", "R", "O">>,
       <<"P", "r", "o", "v", "e", "r", "b", "s">>>>,
     <<<<"E", "C", "C">>,
       <<"E", "c", "c", "l", "e", "s", "i", "a", "s", "t", "e", "s">>>>,
     <<<<"S", "N", "G">>,
       <<"S", "o", "n", "g", " ", "o", "f", " ", "S", "o", "l", "o", "m", "o", "n">>>>,
     <<<<"I", "S", "A">>,
       <<"I", "s", "a", "i", "a", "h">>>>,
     <<<<"J", "E", "R">>,
       <<"J", "e", "r", "e", "m", "i", "a", "h">>>>,
     <<<<"L", "A", "M">>,
       <<"L", "a", "m", "e", "n", "t", "a", "t", "i", "o", "n", "s">>>>,
     <<<<"E", "Z", "K">>,
       <<"E", "z", "e", "k", "i", "e", "l">>>>,
     <<<<"D", "A", "N">>,
       <<"D", "a", "n", "i", "e", "l">>>>,
     <<<<"H", "O", "S">>,
       <<"H", "o", "s", "e", "a">>>>,
     <<<<"J", "O", "L">>,
       <<"J", "o", "e", "l">>>>,
     <<<<"A", "M", "O">>,
       <<"A", "m", "o", "s">>>>,
     <<<<"O", "B", "A">>,
       <<"O", "b", "a", "d", "i", "a", "h">>>>,
     <<<<"J", "O", "N">>,
       <<"J", "o", "n", "a", "h">>>>,
     <<<<"M", "I", "C">>,
       <<"M", "i", "c", "a", "h">>>>,
     <<<<"N", "A", "M">>,
       <<"N", "a", "h", "u", "m">>>>,
     <<<<"H", "A", "B">>,
       <<"H", "a", "b", "a", "k", "k", "u", "k">>>>,
     <<<<"Z", "E", "P">>,
       <<"Z", "e", "p", "h", "a", "n", "i", "a", "h">>>>,
     <<<<"H", "A", "G">>,
       <<"H", "a", "g", "g", "a", "i">>>>,
     <<<<"Z", "E", "C">>,
       <<"Z", "e", "c", "h", "a", "r", "i", "a", "h">>>>,
     <<<<"M", "A", "L">>,
       <<"M", "a", "l", "a", "c", "h", "i">>>>,
     <<<<"M", "A", "T">>,
       <<"M", "a", "t", "t", "h", "e", "w">>>>,
     <<<<"M", "R", "K">>,
       <<"M", "a", "r", "k">>>>,
     <<<<"L", "U", "K">>,
       <<"L", "u", "k", "e">>>>,
     <<<<"J", "H", "N">>,
       <<"J", "o", "h", "n">>>>,
     <<<<"A", "C", "T">>,
       <<"A", "c", "t", "s">>>>,
     <<<<"R", "O", "M">>,
       <<"R", "o", "m", "a", "n", "s">>>>,
     <<<<"1", "C", "O">>,
       <<"1", " ", "C", "o", "r", "i", "n", "t", "h", "i", "a", "n", "s">>>>,
     <<<<"2", "C", "O">>,
       <<"2", " ", "C", "o", "r", "i", "n", "t", "h", "i", "a", "n", "s">>>>,
     <<<<"G", "A", "L">>,
       <<"G", "a", "l", "a", "t", "i", "a", "n", "s">>>>,
     <<<<"E", "P", "H">>,
       <<"E", "p", "h", "e", "s", "i", "a", "n", "s">>>>,
     <<<<"P", "H", "P">>,
       <<"P", "h", "i", "l", "i", "p", "p", "i", "a", "n", "s">>>>,
     <<<<"C", "O", "L">>,
       <<"C", "o", "l", "o", "s", "s", "i", "a", "n", "s">>>>,
     <<<<"1", "T", "H">>,
       <<"1", " ", "T", "h", "e", "s", "s", "a", "l", "o", "n", "i", "a", "n", "s">>>>,
     <<<<"2", "T", "H">>,
       <<"2", " ", "T", "h", "e", "s", "s", "a", "l", "o", "n", "i", "a", "n", "s">>>>,
     <<<<"1", "T", "I">>,
       <<"1", " ", "T", "i", "m", "o", "t", "h", "y">>>>,
     <<<<"2", "T", "I">>,
       <<"2", " ", "T", "i", "m", "o", "t", "h", "y">>>>,
     <<<<"T", "I", "T">>,
       <<"T", "i", "t", "u", "s">>>>,
     <<<<"P", "H", "M">>,
       <<"P", "h", "i", "l", "e", "m", "o", "n">>>>,
     <<<<"H", "E", "B">>,
       <<"H", "e", "b", "r", "e", "w", "s">>>>,
     <<<<"J", "A", "S">>,
       <<"J", "a", "m", "e", "s">>>>,
     <<<<"1", "P", "E">>,
       <<"1", " ", "P", "e", "t", "e", "r">>>>,
     <<<<"2", "P", "E">>,
       <<"2", " ", "P", "e", "t", "e", "r">>>>,
     <<<<"1", "J", "N">>,
       <<"1", " ", "J", "o", "h", "n">>>>,
     <<<<"2", "J", "N">>,
       <<"2", " ", "J", "o", "h", "n">>>>,
     <<<<"3", "J", "N">>,
       <<"3", " ", "J", "o", "h", "n">>>>,
     <<<<"J", "U", "D">>,
       <<"J", "u", "d", "e">>>>,
     <<<<"R", "E", "V">>,
       <<"R", "e", "v", "e", "l", "a", "t", "i", "o", "n">>>>}

BOOK_CODES ==
    [code \in {p[1] : p \in FALLBACK_BOOK_CODES} |->
        (CHOOSE p \in FALLBACK_BOOK_CODES : p[1] = code)[2]]

\* a table that keys the names as they are spelled
MutNameKey(name) == name

\* name.lower()
NameKey(name) == StrLower(name)

\* {name.lower(): code for code, name in BOOK_CODES.items()}; no two books of
\* the table share a name
NAME_TO_CODE ==
    [key \in {NameKey(BOOK_CODES[code]) : code \in DOMAIN BOOK_CODES} |->
        CHOOSE code \in DOMAIN BOOK_CODES : NameKey(BOOK_CODES[code]) = key]

\* up[:3]
FirstThree(s) == SubSeq(s, 1, IF Len(s) < 3 THEN Len(s) ELSE 3)

Resolved(code) == [status |-> 200, code |-> code, name |-> BOOK_CODES[code]]
HTTPException(status) == [status |-> status, code |-> <<>>, name |-> <<>>]

\* resolve_book(book_param)
resolve_book(book_param) ==
    LET stripped == Strip(OrEmpty(book_param))
        up == StrUpper(stripped)
        low == StrLower(stripped)
    IN  IF stripped = <<>> THEN HTTPException(400)
        ELSE IF up \in DOMAIN BOOK_CODES THEN Resolved(up)
        ELSE IF low \in DOMAIN NAME_TO_CODE THEN Resolved(NAME_TO_CODE[low])
        ELSE IF FirstThree(up) \in DOMAIN BOOK_CODES THEN Resolved(FirstThree(up))
        ELSE HTTPException(404)

\* an endpoint that opens the table before it resolves the book
MutConnects(who) == TRUE

\* `with get_conn() as c` is reached when resolve_book has returned
Connects(who) == who.status = 200

\* ORDER BY token_index ASC: the rows of S by ascending token_index, rows
\* with equal token_index in rowid order
RECURSIVE OrderByIndex(_, _)
OrderByIndex(table, S) ==
    IF S = {} THEN <<>>
    ELSE LET first == CHOOSE i \in S : \A j \in S :
                          \/ table[i].token_index < table[j].token_index
                          \/ /\ table[i].token_index = table[j].token_index
                             /\ i <= j
         IN  <<first>> \o OrderByIndex(table, S \ {first})

\* WHERE book_code=? AND chapter=? AND verse=? ORDER BY token_index ASC
SelectVerse(table, code, chapter, verse) ==
    OrderByIndex(table,
                 {i \in 1..Len(table) : /\ table[i].book_code = code
                                        /\ table[i].chapter = chapter
                                        /\ table[i].verse = verse})

\* the HTTPException that leaves the endpoint
ErrorResponse(who) ==
    [status |-> who.status, connected |-> Connects(who),
     body |-> [detail |-> IF who.status = 400 THEN "Book is required."
                          ELSE "Unknown book"]]

VerseBody(who, chapter, verse, table, bs, bl) ==
    [reference |-> <<who.name, chapter, verse>>, book |-> who.name,
     book_code |-> who.code, chapter |-> chapter, verse |-> verse,
     tokens |-> [k \in 1..Len(SelectVerse(table, who.code, chapter, verse)) |->
                    enrich_token(table[SelectVerse(table, who.code, chapter, verse)[k]],
                                 bs, bl)]]

\* get_interlinear_verse(book, chapter, verse) from the request to the response
VerseResponse(book, chapter, verse, table, bs, bl) ==
    IF resolve_book(book).status # 200 THEN ErrorResponse(resolve_book(book))
    ELSE [status |-> 200, connected |-> Connects(resolve_book(book)),
          body |-> VerseBody(resolve_book(book), chapter, verse, table, bs, bl)]

\* verses.setdefault(v, []).append(enrich_token(r)) over the rows
\* ORDER BY verse ASC, token_index ASC
ChapterBody(who, chapter, table, bs, bl) ==
    [reference |-> <<who.name, chapter>>, book |-> who.name,
     book_code |-> who.code, chapter |-> chapter,
     verses |-> [v \in {table[i].verse : i \in {j \in 1..Len(table) :
                                                   /\ table[j].book_code = who.code
                                                   /\ table[j].chapter = chapter}} |->
                    [k \in 1..Len(SelectVerse(table, who.code, chapter, v)) |->
                        enrich_token(table[SelectVerse(table, who.code, chapter, v)[k]],
                                     bs, bl)]]]

\* get_interlinear_chapter(book, chapter) from the request to the response
ChapterResponse(book, chapter, table, bs, bl) ==
    IF resolve_book(book).status # 200 THEN ErrorResponse(resolve_book(book))
    ELSE [status |-> 200, connected |-> Connects(resolve_book(book)),
          body |-> ChapterBody(resolve_book(book), chapter, table, bs, bl)]

\* GET /interlinear/{book}/{chapter}/{verse}
RequestVerse(book, chapter, verse) ==
    /\ loaded
    /\ last' = [op |-> "GET /interlinear/{book}/{chapter}/{verse}",
                book |-> book, chapter |-> chapter, verse |-> verse,
                response |-> VerseResponse(book, chapter, verse, tokens,
                                           by_strong, by_lemma)]
    /\ UNCHANGED <<raw, strongs_csv, greek_csv, tokens_csv, missing, tokens, by_strong, by_lemma, loaded>>

\* GET /interlinear/{book}/{chapter}
RequestChapter(book, chapter) ==
    /\ loaded
    /\ last' = [op |-> "GET /interlinear/{book}/{chapter}",
                book |-> book, chapter |-> chapter,
                response |-> ChapterResponse(book, chapter, tokens,
                                             by_strong, by_lemma)]
    /\ UNCHANGED <<raw, strongs_csv, greek_csv, tokens_csv, missing, tokens, by_strong, by_lemma, loaded>>

(* Inputs: book parameters and a table of two books *)

BookChars == {"J", "j", "o", "h", "n", " "}
BookParams == StringsUpTo(BookChars, MaxBookLen)

BookRow(i, book_code, verse, token_index) ==
    [TokenRow(i, <<"H", "1">>, <<>>, <<>>, <<>>) EXCEPT
        !.book_code = book_code, !.verse = verse, !.token_index = token_index]

\* John 1:1 with its second token stored first, John 1:2 and Jonah 1:1
BookTable ==
    <<BookRow(1, <<"J", "H", "N">>, 1, 2), BookRow(2, <<"J", "H", "N">>, 1, 1),
      BookRow(3, <<"J", "O", "N">>, 1, 1), BookRow(4, <<"J", "H", "N">>, 2, 1)>>

\* raw is the {book} of the requests
InitBook ==
    /\ raw \in BookParams
    /\ strongs_csv = <<RowH1>>
    /\ greek_csv = <<>>
    /\ tokens_csv = NoSource
    /\ missing = {}
    /\ tokens \in {<<>>, BookTable}
    /\ by_strong = EmptyDict
    /\ by_lemma = EmptyDict
    /\ loaded = FALSE
    /\ last = NoOp

NextBook ==
    \/ LexiconLoad
    \/ \E verse \in 1..2 : RequestVerse(raw, 1, verse)
    \/ RequestChapter(raw, 1)

SpecBook == InitBook /\ [][NextBook]_vars

----------------------------------------------------------------------------
(* Properties of book resolution and of the endpoints *)

VerseOp == "GET /interlinear/{book}/{chapter}/{verse}"
ChapterOp == "GET /interlinear/{book}/{chapter}"
Requested == last.op \in {VerseOp, ChapterOp}

\* the book of the request, without surrounding whitespace
Param == Strip(last.book)

\* the books' names in lower case, each with its code
LowerNames == {<<StrLower(p[2]), p[1]>> : p \in FALLBACK_BOOK_CODES}

IsCode(s) == StrUpper(s) \in DOMAIN BOOK_CODES
IsName(s) == \E p \in LowerNames : p[1] = StrLower(s)
CodeOf(s) ==
    IF IsCode(s) THEN StrUpper(s)
    ELSE (CHOOSE p \in LowerNames : p[1] = StrLower(s))[2]
Unknown(s) == s # <<>> /\ ~IsCode(s) /\ ~IsName(s)

\* the response to the same request made with the book's code
ByCode(code) ==
    IF last.op = VerseOp
    THEN VerseResponse(code, last.chapter, last.verse, tokens, by_strong, by_lemma)
    ELSE ChapterResponse(code, last.chapter, tokens, by_strong, by_lemma)

\* the request resolves to this code and its name, with the payload of the
\* request by code
ResolvesTo(code) ==
    /\ last.response.status = 200
    /\ last.response.body.book_code = code
    /\ last.response.body.book = BOOK_CODES[code]
    /\ last.response = ByCode(code)

AcceptsCodeOrName ==
    (Requested /\ (IsCode(Param) \/ IsName(Param))) => ResolvesTo(CodeOf(Param))

EmptyIsInvalid == (Requested /\ Param = <<>>) => last.response.status = 400

\* C17, as stated: a code or a full name is accepted in any case and both
\* give the same (code, name) and payload; an empty book is a validation
\* error; every input that is neither a known code nor a known full name is
\* a not-found error.
C17_UnknownIsNotFound ==
    /\ AcceptsCodeOrName
    /\ EmptyIsInvalid
    /\ (Requested /\ Unknown(Param)) => last.response.status = 404

\* C17, amended: a code or a full name is accepted in any case and both give
\* the same (code, name) and payload; an empty book is a validation error; an
\* input that is neither a code nor a full name resolves to the book whose code
\* is its first three characters in upper case when there is one, and is a
\* not-found error otherwise.
C17_BookResolution ==
    /\ AcceptsCodeOrName
    /\ EmptyIsInvalid
    /\ (Requested /\ Unknown(Param)) =>
          IF FirstThree(StrUpper(Param)) \in DOMAIN BOOK_CODES
          THEN ResolvesTo(FirstThree(StrUpper(Param)))
          ELSE last.response.status = 404

\* the verse requested as "John": both tokens of John 1:1 in token order,
\* under the code JHN
C17_Witness ==
    /\ last.op = VerseOp
    /\ last.book = <<"J", "o", "h", "n">>
    /\ last.response.status = 200
    /\ last.response.body.book_code = <<"J", "H", "N">>
    /\ Len(last.response.body.tokens) = 2
    /\ last.response.body.tokens[1].index = 1
    /\ last.response = ByCode(<<"j", "h", "n">>)

\* C18: on the verse and chapter endpoints a validation error (empty book) or
\* a not-found error (unknown book) is raised before the tokens table is
\* connected to or read, and it is the request's only effect: the response
\* carries the error and no tokens.
C18_ErrorsBeforeTable ==
    Requested =>
        /\ resolve_book(last.book).status # 200 =>
              /\ last.response.status = resolve_book(last.book).status
              /\ ~last.response.connected
              /\ DOMAIN last.response.body = {"detail"}
        /\ Param = <<>> => last.response.status = 400 /\ ~last.response.connected

\* an unknown book asked of a table that holds tokens
C18_Witness ==
    /\ last.op = ChapterOp
    /\ last.book = <<"n", "o">>
    /\ tokens = BookTable
    /\ last.response.status = 404
    /\ ~last.response.connected

----------------------------------------------------------------------------
(* Properties of an aborted seed run *)

Aborted == last.op = "seed" /\ last.exit # "ok"

\* C24: a seed run that aborts leaves no partially inserted batch and does
\* not restore earlier contents: what it inserted and skipped are whole
\* batches, after the rows the run started from in append mode and after
\* nothing in replace mode; an abort on a missing required column leaves the
\* table exactly as before the run in append mode and empty in replace mode.
C24_AbortKeepsWholeBatches ==
    Aborted =>
        /\ (last.total + last.bad) % last.batch_size = 0
        /\ Len(tokens) = (IF last.append THEN Len(last.before) ELSE 0) + last.total
        /\ last.append =>
              \A j \in 1..Len(last.before) : tokens[j] = last.before[j]
        /\ MissingColumns(tokens_csv) # {} =>
              /\ last.exit = "RuntimeError"
              /\ tokens = IF last.append THEN last.before ELSE <<>>

\* a replace-mode run on a file without the strong column, started on a table
\* that held rows: the table is left empty
C24_Witness ==
    /\ Aborted
    /\ ~last.append
    /\ "strong" \in MissingColumns(tokens_csv)
    /\ last.before # <<>>
    /\ tokens = <<>>

----------------------------------------------------------------------------
(* SpecOrder: one token with any strong value against Strong's files of
   tagged and bare codes *)

\* a Strong's row whose entry names the code it was loaded from
OrderRow(code) == StrongsRow(code, code, <<>>, <<>>)

OrderCodes ==
    {<<"H", "1">>, <<"G", "1">>, <<"1">>, <<"H", "2">>, <<"G", "2">>,
     <<"H", "2", "/", "G", "1">>}
OrderRows == {OrderRow(code) : code \in OrderCodes}

OrderChars == {"H", "G", "1", "2", " "}
OrderStrongs == StringsUpTo(OrderChars, MaxStrongLen) \cup {None}

\* the token has no field of its own, so every request looks its code up
InitOrder ==
    /\ strongs_csv \in SeqsUpTo(OrderRows, MaxRows)
    /\ greek_csv = <<>>
    /\ tokens \in {TableOf(<< <<s, <<>>, <<>>, <<>> >> >>) : s \in OrderStrongs}
    /\ Quiet

NextOrder ==
    \/ LexiconLoad
    \/ \E v \in 1..Len(tokens) : get_interlinear_verse(v)

SpecOrder == InitOrder /\ [][NextOrder]_vars

----------------------------------------------------------------------------
(* Properties of the candidate orders *)

\* the first of the keys that the map d holds, as a position, 0 when none
FirstHit(keys, d) ==
    IF \E n \in 1..Len(keys) : keys[n] \in DOMAIN d
    THEN CHOOSE n \in 1..Len(keys) :
            keys[n] \in DOMAIN d /\ \A m \in 1..(n - 1) : keys[m] \notin DOMAIN d
    ELSE 0

\* the lookup found e along keys in d, or missed along them
SameHit(found, e, keys, d) ==
    IF FirstHit(keys, d) = 0 THEN ~found
    ELSE found /\ e = d[keys[FirstHit(keys, d)]]

\* the token's code along the OT-biased order
OTKeys == norm_strong_keys_ot(OrEmpty(tokens[1].strong))

\* C21: the two candidate orders are observationally equivalent: for every
\* store the load procedure builds from a sequence of Strong's rows and every
\* token strong value, the first hit of the request along the default order
\* (H<d>, G<d>, <d>) and the first hit along the OT-biased order
\* (H<d>, <d>, G<d>), in the served store and in the store the export tool
\* loads, are the same entry, or all miss.
C21_OrdersEquivalent ==
    Served =>
        \A i \in DOMAIN last.lookups :
            /\ SameHit(last.lookups[i].via = "strong", last.lookups[i].entry,
                       OTKeys, by_strong)
            /\ SameHit(last.lookups[i].via = "strong", last.lookups[i].entry,
                       OTKeys, load_strongs_map_ot(strongs_csv))

\* a bare code whose Greek key and bare key are both in the store, under
\* entries loaded from different rows, and whose Hebrew key hits first
C21_Witness ==
    /\ Served
    /\ tokens[1].strong = <<"1">>
    /\ <<"G", "1">> \in DOMAIN by_strong /\ <<"1">> \in DOMAIN by_strong
    /\ by_strong[<<"G", "1">>] # by_strong[<<"1">>]
    /\ last.lookups[1].via = "strong"
    /\ last.lookups[1].entry = by_strong[<<"H", "1">>]

\* the row's code is a single language-tagged code
TaggedCode(code) == MatchTagged(code)
Language(code) == Upper(code[1])

AllTagged == \A n \in 1..Len(strongs_csv) : TaggedCode(strongs_csv[n].strong)

\* the entry was loaded from a row of this language
LoadedFrom(entry, language) ==
    \E n \in 1..Len(strongs_csv) :
        /\ TaggedCode(strongs_csv[n].strong)
        /\ Language(strongs_csv[n].strong) = language
        /\ entry.lemma = Strip(strongs_csv[n].lemma)

Other(language) == IF language = "H" THEN "G" ELSE "H"

----------------------------------------------------------------------------
(* Second run of the Batch Resolver *)

\* the same command once more, on the table and the lexicon files as they are
Rerun ==
    apply_lexicon_to_db(tokens, last.overwrite,
                        IfIsFile(StrongsFile, strongs_csv, missing),
                        IfIsFile(GreekFile, greek_csv, missing))

\* C23: the Batch Resolver is idempotent per mode: after a run in either
\* mode, for every token table and fixed lexicon, a second run in the same
\* mode writes no row, reports updated = 0 and leaves the table exactly as
\* the first run left it.
C23_BatchIdempotent ==
    RanApply =>
        /\ Rerun.updated = 0
        /\ Rerun.table = tokens
        /\ \A i \in 1..Len(tokens) :
              ~BatchOutcome(tokens[i], last.overwrite,
                            last.strongs_map, last.greek_map).write

\* the run wrote a row that a second run in the same mode selects and
\* resolves again
C23_Witness ==
    /\ RanApply
    /\ last.updated >= 1
    /\ \E i \in 1..Len(tokens) :
          /\ tokens[i] # last.before[i]
          /\ Selected(tokens[i], last.overwrite)
          /\ BatchOutcome(tokens[i], last.overwrite,
                          last.strongs_map, last.greek_map).via # "none"

----------------------------------------------------------------------------
====
